---- MODULE Spec2Model ----
(***************************************************************************)
(* A model of the VLM gateway of pdf-tokens: the capability registries of  *)
(* the two provider adapters and their lookup, request validation,         *)
(* findCapableProvider, the adapters' transformRequest, the retry loop of  *)
(* VLMGateway.send, and the streaming path (VLMGateway.sendStream over the *)
(* adapters' SSE readers).                                                 *)
(*                                                                         *)
(* Strings that the code inspects are modelled as sequences of tokens:     *)
(*  - a model identifier is the sequence of its hyphen-separated pieces    *)
(*    ('claude-3-opus-latest' is <<"claude","3","opus","latest">>), so     *)
(*    that includes()/startsWith() are computed on it;                     *)
(*  - an SSE byte stream is a sequence of atoms, "\n" being the newline.   *)
(***************************************************************************)
EXTENDS Integers, Sequences, FiniteSets, TLC

VARIABLES
    op,          \* which gateway entry point this behaviour exercises
    request,     \* the GatewayRequest passed in
    configured,  \* provider ids whose adapter has an API key
    capabilityCache, \* this.capabilityCache: provider id -> ProviderCapabilities
    calls,       \* the getProviderCapabilities / findCapableProvider calls in flight
    retry,       \* config.retry: maxRetries, backoffMs, backoffMultiplier
    pc,          \* position inside the running call
    attempt,     \* loop variable of the retry loop
    lastError,   \* lastError of send
    history,     \* adapter invocations and backoff delays, in order
    result,      \* what the call returned or threw
    wire,        \* SSE bytes the provider still has to deliver
    wireEnd,     \* how the byte stream ends: "eof" or "abort"
    consumed,    \* SSE bytes already handed out by reader.read()
    buffer,      \* sendStream's line buffer
    acc,         \* sendStream's accumulators (fullResponse, tokens, ...)
    yielded,     \* chunks yielded by adapter.sendStream
    delivered,   \* chunks yielded by VLMGateway.sendStream
    defaultModel, \* this.defaultModel of each adapter
    pdf,         \* the document extractPdf works on
    pageNumber,  \* loop variable i of extractPdf
    emitted      \* the events extractPdf passed to emit, in order

\* the state of the PDF extractor
extractor == <<pdf, pageNumber, emitted>>

vars == <<op, calls, request, configured, capabilityCache, retry, pc, attempt, lastError, history,
          result, wire, wireEnd, consumed, buffer, acc, yielded, delivered,
          defaultModel, extractor>>

----------------------------------------------------------------------------
\* Bounds of the model.

\* largest config.retry.maxRetries explored
MaxRetriesBound == 3
\* most content parts in one array-content message
MaxParts == 2
\* most SSE lines in one provider stream
MaxLines == 3
\* most atoms one reader.read() hands out
MaxRead == 3

Null == [kind |-> "null"]

----------------------------------------------------------------------------
\* Small sequence helpers standing for the JavaScript built-ins used.

\* String.prototype.startsWith on token sequences
StartsWith(s, p) ==
    /\ Len(p) <= Len(s)
    /\ SubSeq(s, 1, Len(p)) = p

\* String.prototype.includes on token sequences
Includes(s, p) ==
    \E i \in 0..(Len(s) - Len(p)) : SubSeq(s, i + 1, i + Len(p)) = p

\* Math.pow for natural exponents
RECURSIVE Pow(_, _)
Pow(b, e) == IF e <= 0 THEN 1 ELSE b * Pow(b, e - 1)

\* concatenation of a sequence of sequences, in order
RECURSIVE Flatten(_)
Flatten(ss) == IF ss = <<>> THEN <<>> ELSE Head(ss) \o Flatten(Tail(ss))

\* the set of all sequences over S of length at most n
SeqsUpTo(S, n) == UNION {[1..k -> S] : k \in 0..n}

----------------------------------------------------------------------------
\* Capability registry of the Anthropic adapter.

CLAUDE_3_CAPABILITIES ==
    [vision |-> TRUE, pdf |-> TRUE, audio |-> FALSE, video |-> FALSE,
     tools |-> TRUE, streaming |-> TRUE,
     maxContextTokens |-> 200000, maxOutputTokens |-> 8192]

CLAUDE_OPUS_CAPABILITIES ==
    [CLAUDE_3_CAPABILITIES EXCEPT !.maxOutputTokens = 16384]

ANTHROPIC_MODEL_CAPABILITIES ==
    << [id |-> <<"claude", "opus", "4", "20250514">>, caps |-> CLAUDE_OPUS_CAPABILITIES],
       [id |-> <<"claude", "sonnet", "4", "20250514">>, caps |-> CLAUDE_3_CAPABILITIES],
       [id |-> <<"claude", "3", "7", "sonnet", "20250219">>, caps |-> CLAUDE_3_CAPABILITIES],
       [id |-> <<"claude", "3", "7", "sonnet", "latest">>, caps |-> CLAUDE_3_CAPABILITIES],
       [id |-> <<"claude", "3", "5", "sonnet", "20241022">>, caps |-> CLAUDE_3_CAPABILITIES],
       [id |-> <<"claude", "3", "5", "sonnet", "latest">>, caps |-> CLAUDE_3_CAPABILITIES],
       [id |-> <<"claude", "3", "5", "sonnet", "20240620">>, caps |-> CLAUDE_3_CAPABILITIES],
       [id |-> <<"claude", "3", "5", "haiku", "20241022">>, caps |-> CLAUDE_3_CAPABILITIES],
       [id |-> <<"claude", "3", "5", "haiku", "latest">>, caps |-> CLAUDE_3_CAPABILITIES],
       [id |-> <<"claude", "3", "opus", "20240229">>,
        caps |-> [CLAUDE_3_CAPABILITIES EXCEPT !.pdf = FALSE]],
       [id |-> <<"claude", "3", "opus", "latest">>,
        caps |-> [CLAUDE_3_CAPABILITIES EXCEPT !.pdf = FALSE]],
       [id |-> <<"claude", "3", "sonnet", "20240229">>,
        caps |-> [CLAUDE_3_CAPABILITIES EXCEPT !.pdf = FALSE]],
       [id |-> <<"claude", "3", "haiku", "20240307">>,
        caps |-> [CLAUDE_3_CAPABILITIES EXCEPT !.pdf = FALSE, !.maxOutputTokens = 4096]] >>

\* Capability registry of the OpenAI adapter.

GPT4_VISION_CAPABILITIES ==
    [vision |-> TRUE, pdf |-> FALSE, audio |-> FALSE, video |-> FALSE,
     tools |-> TRUE, streaming |-> TRUE,
     maxContextTokens |-> 128000, maxOutputTokens |-> 4096]

GPT4O_CAPABILITIES ==
    [GPT4_VISION_CAPABILITIES EXCEPT !.maxOutputTokens = 16384]

GPT4O_MINI_CAPABILITIES ==
    [GPT4_VISION_CAPABILITIES EXCEPT !.maxContextTokens = 128000,
                                     !.maxOutputTokens = 16384]

OPENAI_MODEL_CAPABILITIES ==
    << [id |-> <<"gpt", "4o">>, caps |-> GPT4O_CAPABILITIES],
       [id |-> <<"gpt", "4o", "2024", "11", "20">>, caps |-> GPT4O_CAPABILITIES],
       [id |-> <<"gpt", "4o", "2024", "08", "06">>, caps |-> GPT4O_CAPABILITIES],
       [id |-> <<"gpt", "4o", "2024", "05", "13">>, caps |-> GPT4O_CAPABILITIES],
       [id |-> <<"gpt", "4o", "mini">>, caps |-> GPT4O_MINI_CAPABILITIES],
       [id |-> <<"gpt", "4o", "mini", "2024", "07", "18">>, caps |-> GPT4O_MINI_CAPABILITIES],
       [id |-> <<"gpt", "4", "turbo">>, caps |-> GPT4_VISION_CAPABILITIES],
       [id |-> <<"gpt", "4", "turbo", "2024", "04", "09">>, caps |-> GPT4_VISION_CAPABILITIES],
       [id |-> <<"gpt", "4", "vision", "preview">>, caps |-> GPT4_VISION_CAPABILITIES],
       [id |-> <<"o1">>,
        caps |-> [GPT4O_CAPABILITIES EXCEPT !.maxOutputTokens = 100000,
                                            !.maxContextTokens = 200000]],
       [id |-> <<"o1", "preview">>,
        caps |-> [GPT4O_CAPABILITIES EXCEPT !.maxOutputTokens = 32768]],
       [id |-> <<"o1", "mini">>,
        caps |-> [GPT4O_MINI_CAPABILITIES EXCEPT !.vision = FALSE]] >>

\* MODEL_CAPABILITIES is an object literal, so a property read on it also
\* finds what Object.prototype defines under these names
ObjectPrototypeKeys ==
    { <<"constructor">>, <<"toString">>, <<"valueOf">>, <<"hasOwnProperty">>,
      <<"__proto__">> }

\* the value of an inherited property: a function (or Object.prototype),
\* truthy, on which every capability field reads undefined
InheritedProperty(model) ==
    [kind |-> "inherited", name |-> model[1],
     vision |-> FALSE, pdf |-> FALSE, audio |-> FALSE, video |-> FALSE,
     tools |-> FALSE, streaming |-> FALSE,
     maxContextTokens |-> 0, maxOutputTokens |-> 0]

\* MODEL_CAPABILITIES[model]: the entry of a registered identifier, an
\* inherited property, or Null for undefined
Lookup(table, model) ==
    IF \E i \in 1..Len(table) : table[i].id = model
    THEN table[CHOOSE i \in 1..Len(table) : table[i].id = model].caps
    ELSE IF model \in ObjectPrototypeKeys THEN InheritedProperty(model)
    ELSE Null

AnthropicGetModelCapabilities(model) ==
    IF Lookup(ANTHROPIC_MODEL_CAPABILITIES, model) # Null
    THEN Lookup(ANTHROPIC_MODEL_CAPABILITIES, model)
    ELSE IF Includes(model, <<"opus">>) THEN CLAUDE_OPUS_CAPABILITIES
    ELSE IF Includes(model, <<"claude", "3">>) THEN CLAUDE_3_CAPABILITIES
    ELSE CLAUDE_3_CAPABILITIES

OpenAIGetModelCapabilities(model) ==
    IF Lookup(OPENAI_MODEL_CAPABILITIES, model) # Null
    THEN Lookup(OPENAI_MODEL_CAPABILITIES, model)
    ELSE IF StartsWith(model, <<"gpt", "4o", "mini">>) THEN GPT4O_MINI_CAPABILITIES
    ELSE IF StartsWith(model, <<"gpt", "4o">>) \/ StartsWith(model, <<"gpt", "4", "turbo">>)
         THEN GPT4O_CAPABILITIES
    ELSE IF StartsWith(model, <<"o1">>) THEN GPT4O_CAPABILITIES
    ELSE GPT4_VISION_CAPABILITIES

----------------------------------------------------------------------------
\* Canonical data model.

\* the five ContentPart types, plus one type no adapter knows
KnownPartTypes == {"text", "image", "pdf", "audio", "video"}
PartTypes == KnownPartTypes \cup {"tool"}

TextPart(t) == [type |-> "text", text |-> t]
MediaPart(ty) == [type |-> ty, data |-> "b64"]
Parts == {TextPart(<<"hi">>)} \cup {MediaPart(ty) : ty \in PartTypes \ {"text"}}

StringContent(t) == [isString |-> TRUE, text |-> t]
ArrayContent(ps) == [isString |-> FALSE, parts |-> ps]
Message(role, content) == [role |-> role, content |-> content]

\* new GatewayError(message, code, provider, statusCode); an absent provider
\* is "undefined", an absent statusCode is hasStatus = FALSE. raisedAt tells
\* the error objects of successive adapter calls apart (object identity).
GatewayError(message, code, provider, hasStatus, statusCode) ==
    [kind |-> "error", cls |-> "GatewayError", message |-> message,
     code |-> code, provider |-> provider,
     hasStatus |-> hasStatus, statusCode |-> statusCode, raisedAt |-> 0]

\* new CapabilityError(message, requiredCapability, model, provider)
CapabilityError(message, requiredCapability, model, provider) ==
    [GatewayError(message, "CAPABILITY_ERROR", provider, FALSE, 0)
        EXCEPT !.cls = "CapabilityError"]
    @@ [requiredCapability |-> requiredCapability, model |-> model]

\* new TransformError(message, provider)
TransformError(message, provider) ==
    [GatewayError(message, "TRANSFORM_ERROR", provider, FALSE, 0)
        EXCEPT !.cls = "TransformError"]

\* an exception that is no GatewayError (fetch rejecting, a TypeError, ...)
PlainError(message) ==
    [kind |-> "error", cls |-> "Error", message |-> message,
     code |-> "undefined", provider |-> "undefined",
     hasStatus |-> FALSE, statusCode |-> 0, raisedAt |-> 0]

IsGatewayError(e) == e.cls \in {"GatewayError", "CapabilityError", "TransformError"}

Msg(text, model) == [text |-> text, model |-> model]

----------------------------------------------------------------------------
\* VLMGateway: adapters and request validation.

\* the keys of this.adapters, in registration order
AdapterIds == <<"anthropic", "openai">>

HasAdapter(providerId) == \E i \in 1..Len(AdapterIds) : AdapterIds[i] = providerId

\* adapter.isConfigured(): a credential is present
IsConfigured(providerId) == providerId \in configured

\* VLMGateway.getModelCapabilities: Null stands for the UNKNOWN_PROVIDER throw
GetModelCapabilities(providerId, model) ==
    IF providerId = "anthropic" THEN AnthropicGetModelCapabilities(model)
    ELSE IF providerId = "openai" THEN OpenAIGetModelCapabilities(model)
    ELSE Null

\* the body of the switch in validateRequest, for one content part
PartViolations(part, capabilities, model) ==
    IF part.type = "image" /\ ~capabilities.vision
    THEN <<Msg("does not support image input", model)>>
    ELSE IF part.type = "pdf" /\ ~capabilities.pdf
    THEN <<Msg("does not support native PDF input", model)>>
    ELSE IF part.type = "audio" /\ ~capabilities.audio
    THEN <<Msg("does not support audio input", model)>>
    ELSE IF part.type = "video" /\ ~capabilities.video
    THEN <<Msg("does not support video input", model)>>
    ELSE <<>>

\* validateRequest that gives up after the first violation
ValidateFirstViolationOnly(req, capabilities) ==
    LET perMessage(m) ==
            IF m.content.isString THEN <<>>
            ELSE Flatten([j \in 1..Len(m.content.parts) |->
                            PartViolations(m.content.parts[j], capabilities, req.model)])
        all == Flatten([i \in 1..Len(req.messages) |-> perMessage(req.messages[i])])
        errors == IF all = <<>> THEN <<>> ELSE <<Head(all)>>
    IN  [valid |-> Len(errors) = 0, errors |-> errors]

\* validateRequest, given the capabilities resolved for request.model
ValidateAgainst(req, capabilities) ==
    LET perMessage(m) ==
            IF m.content.isString THEN <<>>
            ELSE Flatten([j \in 1..Len(m.content.parts) |->
                            PartViolations(m.content.parts[j], capabilities, req.model)])
        errors == Flatten([i \in 1..Len(req.messages) |-> perMessage(req.messages[i])])
    IN  [valid |-> Len(errors) = 0, errors |-> errors]

UnknownProvider(providerId) ==
    GatewayError(<<Msg("Unknown provider", <<>>)>>, "UNKNOWN_PROVIDER", "undefined", FALSE, 0)

\* VLMGateway.validateRequest: a validation result, or the error it throws
validateRequest(req) ==
    IF GetModelCapabilities(req.provider, req.model) = Null
    THEN UnknownProvider(req.provider)
    ELSE [kind |-> "validation"]
         @@ ValidateAgainst(req, GetModelCapabilities(req.provider, req.model))

----------------------------------------------------------------------------
\* VLMGateway.findCapableProvider.

\* a provider list that is not filtered by isConfigured
ListAllProviders == AdapterIds

\* VLMGateway.listConfiguredProviders, in registration order
ListConfiguredProviders == SelectSeq(AdapterIds, LAMBDA id : IsConfigured(id))

\* (await adapter.getCapabilities()).models, in Object.entries order
ProviderModels(providerId) ==
    IF providerId = "anthropic" THEN ANTHROPIC_MODEL_CAPABILITIES
    ELSE OPENAI_MODEL_CAPABILITIES

\* the switch of findCapableModel over the required content types
Capable(modelCaps, contentTypes) ==
    \A i \in 1..Len(contentTypes) :
        /\ contentTypes[i] = "image" => modelCaps.vision
        /\ contentTypes[i] = "pdf" => modelCaps.pdf
        /\ contentTypes[i] = "audio" => modelCaps.audio
        /\ contentTypes[i] = "video" => modelCaps.video

\* the loop of findCapableModel over the entries that are left
RECURSIVE FirstCapable(_, _)
FirstCapable(models, contentTypes) ==
    IF models = <<>> THEN Null
    ELSE IF Capable(Head(models).caps, contentTypes)
    THEN [kind |-> "model", id |-> Head(models).id]
    ELSE FirstCapable(Tail(models), contentTypes)

\* VLMGateway.findCapableModel: the first capable model id, or Null
FindCapableModel(providerId, contentTypes) ==
    FirstCapable(ProviderModels(providerId), contentTypes)

\* "Try other providers": the loop over the configured providers that are
\* left; tried collects the providers whose capabilities were fetched
RECURSIVE TryOtherProviders(_, _, _, _)
TryOtherProviders(providers, contentTypes, preferredProvider, tried) ==
    IF providers = <<>> THEN [found |-> Null, tried |-> tried]
    ELSE IF Head(providers) = preferredProvider
    THEN TryOtherProviders(Tail(providers), contentTypes, preferredProvider, tried)
    ELSE IF FindCapableModel(Head(providers), contentTypes) # Null
    THEN [found |-> [kind |-> "found", provider |-> Head(providers),
                     model |-> FindCapableModel(Head(providers), contentTypes).id],
          tried |-> tried \cup {Head(providers)}]
    ELSE TryOtherProviders(Tail(providers), contentTypes, preferredProvider,
                           tried \cup {Head(providers)})

\* a findCapableProvider that does not look at preferredProvider
FindCapableProviderIgnoringPreference(contentTypes, preferredProvider) ==
    TryOtherProviders(ListConfiguredProviders, contentTypes, "undefined", {})

\* VLMGateway.findCapableProvider: what it returns (found) and the providers
\* whose capabilities it fetched (tried); an absent preferredProvider is
\* "undefined"
FindCapableProvider(contentTypes, preferredProvider) ==
    LET providers == ListConfiguredProviders
        preferredListed ==
            /\ preferredProvider \notin {"undefined", ""}
            /\ \E i \in 1..Len(providers) : providers[i] = preferredProvider
    IN  IF preferredListed /\ FindCapableModel(preferredProvider, contentTypes) # Null
        THEN [found |-> [kind |-> "found", provider |-> preferredProvider,
                         model |-> FindCapableModel(preferredProvider, contentTypes).id],
              tried |-> {preferredProvider}]
        ELSE TryOtherProviders(providers, contentTypes, preferredProvider,
                               IF preferredListed THEN {preferredProvider} ELSE {})

----------------------------------------------------------------------------
\* Provider adapters: canonical request -> wire request.

AnthropicDefaultModel == <<"claude", "sonnet", "4", "20250514">>
OpenAIDefaultModel == <<"gpt", "4o", "mini">>

IsError(x) == x.kind = "error"

\* JavaScript truthiness of an optional string: a string is the sequence of
\* the pieces it was concatenated from, the empty sequence standing for
\* undefined and for the empty string
Truthy(pieces) == pieces # <<>> /\ \E i \in 1..Len(pieces) : pieces[i] # ""

\* the first error among the elements of a sequence, or Null
FirstError(xs) ==
    IF \E i \in 1..Len(xs) : IsError(xs[i])
    THEN xs[CHOOSE i \in 1..Len(xs) : IsError(xs[i]) /\ \A j \in 1..(i - 1) : ~IsError(xs[j])]
    ELSE Null

\* an adapter that turns every PDF part down
AnthropicTransformContentPartNoPdf(part, capabilities) ==
    IF part.type = "text" THEN [kind |-> "block", type |-> "text", text |-> part.text]
    ELSE IF part.type = "image" /\ capabilities.vision
    THEN [kind |-> "block", type |-> "image", data |-> part.data]
    ELSE TransformError(<<Msg("Model does not support this input", <<>>)>>, "anthropic")

AnthropicTransformContentPart(part, capabilities) ==
    IF part.type = "text" THEN [kind |-> "block", type |-> "text", text |-> part.text]
    ELSE IF part.type = "image" THEN
        IF ~capabilities.vision
        THEN TransformError(<<Msg("Model does not support vision/image input", <<>>)>>, "anthropic")
        ELSE [kind |-> "block", type |-> "image", data |-> part.data]
    ELSE IF part.type = "pdf" THEN
        IF capabilities.pdf
        THEN [kind |-> "block", type |-> "document", data |-> part.data]
        ELSE TransformError(<<Msg("Model does not support native PDF input", <<>>)>>, "anthropic")
    ELSE IF part.type = "audio"
    THEN TransformError(<<Msg("Anthropic does not support audio input", <<>>)>>, "anthropic")
    ELSE IF part.type = "video"
    THEN TransformError(<<Msg("Anthropic does not support video input", <<>>)>>, "anthropic")
    ELSE TransformError(<<Msg("Unknown content part type", <<>>)>>, "anthropic")

OpenAITransformContentPart(part, capabilities) ==
    IF part.type = "text" THEN [kind |-> "block", type |-> "text", text |-> part.text]
    ELSE IF part.type = "image" THEN
        IF ~capabilities.vision
        THEN TransformError(<<Msg("Model does not support vision/image input", <<>>)>>, "openai")
        ELSE [kind |-> "block", type |-> "image_url", data |-> part.data]
    ELSE IF part.type = "pdf"
    THEN TransformError(<<Msg("OpenAI does not support native PDF input", <<>>)>>, "openai")
    ELSE IF part.type = "audio"
    THEN TransformError(<<Msg("OpenAI Chat API does not support audio input", <<>>)>>, "openai")
    ELSE IF part.type = "video"
    THEN TransformError(<<Msg("OpenAI does not support video input", <<>>)>>, "openai")
    ELSE TransformError(<<Msg("Unknown content part type", <<>>)>>, "openai")

\* transformMessage of either adapter, blocks being the transformed parts
WireMessage(message, blocks) ==
    IF message.content.isString
    THEN [kind |-> "message", role |-> message.role, content |-> StringContent(message.content.text)]
    ELSE IF FirstError(blocks) # Null THEN FirstError(blocks)
    ELSE IF Len(blocks) = 1 /\ blocks[1].type = "text"
    THEN [kind |-> "message", role |-> message.role, content |-> StringContent(blocks[1].text)]
    ELSE [kind |-> "message", role |-> message.role, content |-> ArrayContent(blocks)]

AnthropicTransformMessage(message, capabilities) ==
    WireMessage(message,
        IF message.content.isString THEN <<>>
        ELSE [j \in 1..Len(message.content.parts) |->
                AnthropicTransformContentPart(message.content.parts[j], capabilities)])

OpenAITransformMessage(message, capabilities) ==
    WireMessage(message,
        IF message.content.isString THEN <<>>
        ELSE [j \in 1..Len(message.content.parts) |->
                OpenAITransformContentPart(message.content.parts[j], capabilities)])

\* a loop that puts each system message in front of the prompt
RECURSIVE AnthropicSystemPromptReversed(_, _)
AnthropicSystemPromptReversed(systemPrompt, messages) ==
    IF messages = <<>> THEN systemPrompt
    ELSE LET m == Head(messages)
         IN  IF m.role = "system" /\ m.content.isString
             THEN AnthropicSystemPromptReversed(
                      IF Truthy(systemPrompt)
                      THEN m.content.text \o <<"\n\n">> \o systemPrompt
                      ELSE m.content.text,
                      Tail(messages))
             ELSE AnthropicSystemPromptReversed(systemPrompt, Tail(messages))

\* the system prompt after the loop of AnthropicAdapter.transformRequest
RECURSIVE AnthropicSystemPrompt(_, _)
AnthropicSystemPrompt(systemPrompt, messages) ==
    IF messages = <<>> THEN systemPrompt
    ELSE LET m == Head(messages)
         IN  IF m.role = "system" /\ m.content.isString
             THEN AnthropicSystemPrompt(
                      IF Truthy(systemPrompt)
                      THEN systemPrompt \o <<"\n\n">> \o m.content.text
                      ELSE m.content.text,
                      Tail(messages))
             ELSE AnthropicSystemPrompt(systemPrompt, Tail(messages))

AnthropicTransformRequest(req) ==
    LET capabilities == AnthropicGetModelCapabilities(req.model)
        kept == SelectSeq(req.messages, LAMBDA m : m.role # "system")
        transformed == [i \in 1..Len(kept) |-> AnthropicTransformMessage(kept[i], capabilities)]
        systemPrompt == AnthropicSystemPrompt(req.system, req.messages)
    IN  IF FirstError(transformed) # Null THEN FirstError(transformed)
        ELSE [kind |-> "wire",
              model |-> IF req.model # <<>> THEN req.model ELSE defaultModel["anthropic"],
              max_tokens |-> capabilities.maxOutputTokens,
              messages |-> transformed,
              system |-> IF Truthy(systemPrompt) THEN systemPrompt ELSE <<>>]

OpenAITransformRequest(req) ==
    LET capabilities == OpenAIGetModelCapabilities(req.model)
        transformed == [i \in 1..Len(req.messages) |->
                          OpenAITransformMessage(req.messages[i], capabilities)]
        systemMessages ==
            IF Truthy(req.system)
            THEN <<[kind |-> "message", role |-> "system", content |-> StringContent(req.system)]>>
            ELSE <<>>
    IN  IF FirstError(transformed) # Null THEN FirstError(transformed)
        ELSE [kind |-> "wire",
              model |-> IF req.model # <<>> THEN req.model ELSE defaultModel["openai"],
              messages |-> systemMessages \o transformed]

----------------------------------------------------------------------------
\* Provider adapters: wire response -> canonical response, and send.

StopReasons == {"end_turn", "max_tokens", "stop_sequence", "tool_use", "error"}

\* stopReasonMap is an object literal: for a key that Object.prototype
\* defines, stopReasonMap[key] is the inherited member, which is truthy
InheritedMember(key) ==
    CASE key = "constructor" -> "[Function: Object]"
      [] key = "toString" -> "[Function: toString]"
      [] key = "valueOf" -> "[Function: valueOf]"
      [] key = "hasOwnProperty" -> "[Function: hasOwnProperty]"
      [] OTHER -> "[Object: null prototype] {}"

\* stopReasonMap[reason] || 'end_turn' of the Anthropic adapter
AnthropicStopReason(reason) ==
    IF reason \in {"end_turn", "max_tokens", "stop_sequence", "tool_use"}
    THEN reason
    ELSE IF <<reason>> \in ObjectPrototypeKeys THEN InheritedMember(reason)
    ELSE "end_turn"

\* stopReasonMap[reason] || 'end_turn' of the OpenAI adapter
OpenAIStopReason(reason) ==
    IF reason = "stop" THEN "end_turn"
    ELSE IF reason = "length" THEN "max_tokens"
    ELSE IF reason = "tool_calls" THEN "tool_use"
    ELSE IF reason = "content_filter" THEN "end_turn"
    ELSE IF <<reason>> \in ObjectPrototypeKeys THEN InheritedMember(reason)
    ELSE "end_turn"

\* a transformResponse that takes no block for a text block
AnthropicTransformResponseNoText(anthResponse) ==
    [kind |-> "response",
     id |-> anthResponse.id,
     provider |-> "anthropic",
     model |-> anthResponse.model,
     content |-> [i \in 1..Len(anthResponse.content) |->
                    TextPart(<<"[Unsupported block type]">>)],
     stopReason |-> AnthropicStopReason(anthResponse.stop_reason),
     usage |-> [inputTokens |-> anthResponse.usage.input_tokens,
                outputTokens |-> anthResponse.usage.output_tokens]]

AnthropicTransformResponse(anthResponse) ==
    [kind |-> "response",
     id |-> anthResponse.id,
     provider |-> "anthropic",
     model |-> anthResponse.model,
     content |-> [i \in 1..Len(anthResponse.content) |->
                    IF anthResponse.content[i].type = "text"
                    THEN TextPart(anthResponse.content[i].text)
                    ELSE TextPart(<<"[Unsupported block type]">>)],
     stopReason |-> AnthropicStopReason(anthResponse.stop_reason),
     usage |-> [inputTokens |-> anthResponse.usage.input_tokens,
                outputTokens |-> anthResponse.usage.output_tokens]]

OpenAITransformResponse(oaiResponse) ==
    [kind |-> "response",
     id |-> oaiResponse.id,
     provider |-> "openai",
     model |-> oaiResponse.model,
     content |-> <<TextPart(IF oaiResponse.choices = <<>> THEN <<>>
                            ELSE oaiResponse.choices[1].message.content)>>,
     stopReason |-> OpenAIStopReason(IF oaiResponse.choices = <<>> THEN "undefined"
                                     ELSE oaiResponse.choices[1].finish_reason),
     usage |-> [inputTokens |-> oaiResponse.usage.prompt_tokens,
                outputTokens |-> oaiResponse.usage.completion_tokens]]

\* what the HTTP exchange of one adapter call can come to: fetch rejects
\* (network-level failure), or the provider answers with a status and a body
HttpStatuses == {200, 304, 400, 429, 500}

AnthropicBody ==
    [id |-> "msg_1", model |-> AnthropicDefaultModel,
     content |-> <<[type |-> "text", text |-> <<"answer">>]>>,
     stop_reason |-> "end_turn",
     usage |-> [input_tokens |-> 7, output_tokens |-> 3]]

OpenAIBody ==
    [id |-> "chatcmpl-1", model |-> OpenAIDefaultModel,
     choices |-> <<[message |-> [content |-> <<"answer">>], finish_reason |-> "stop"]>>,
     usage |-> [prompt_tokens |-> 7, completion_tokens |-> 3]]

NetworkOutcomes ==
    {[kind |-> "reject"]} \cup {[kind |-> "http", status |-> s] : s \in HttpStatuses}

\* response.ok of the fetch API
ResponseOk(status) == status >= 200 /\ status <= 299

AnthropicSend(req, net) ==
    IF ~IsConfigured("anthropic")
    THEN GatewayError(<<Msg("Anthropic API key not configured", <<>>)>>,
                      "NOT_CONFIGURED", "anthropic", FALSE, 0)
    ELSE IF IsError(AnthropicTransformRequest(req)) THEN AnthropicTransformRequest(req)
    ELSE IF net.kind = "reject" THEN PlainError(<<Msg("fetch failed", <<>>)>>)
    ELSE IF ~ResponseOk(net.status)
    THEN GatewayError(<<Msg("Anthropic API error", <<>>)>>, "API_ERROR", "anthropic",
                      TRUE, net.status)
    ELSE AnthropicTransformResponse(AnthropicBody)

OpenAISend(req, net) ==
    IF ~IsConfigured("openai")
    THEN GatewayError(<<Msg("OpenAI API key not configured", <<>>)>>,
                      "NOT_CONFIGURED", "openai", FALSE, 0)
    ELSE IF IsError(OpenAITransformRequest(req)) THEN OpenAITransformRequest(req)
    ELSE IF net.kind = "reject" THEN PlainError(<<Msg("fetch failed", <<>>)>>)
    ELSE IF ~ResponseOk(net.status)
    THEN GatewayError(<<Msg("OpenAI API error", <<>>)>>, "API_ERROR", "openai",
                      TRUE, net.status)
    ELSE OpenAITransformResponse(OpenAIBody)

\* adapter.send(request) through the ProviderAdapter interface
AdapterSend(providerId, req, net) ==
    IF providerId = "anthropic" THEN AnthropicSend(req, net) ELSE OpenAISend(req, net)

----------------------------------------------------------------------------
\* VLMGateway.send.

Attempts(h) == SelectSeq(h, LAMBDA e : e.kind = "attempt")
Delays(h) == SelectSeq(h, LAMBDA e : e.kind = "delay")

\* send whose pre-checks forget the validation step
SendPrechecksWithoutValidation(req) ==
    IF ~HasAdapter(req.provider) THEN UnknownProvider(req.provider)
    ELSE IF ~IsConfigured(req.provider)
    THEN GatewayError(<<Msg("Provider is not configured", <<>>)>>,
                      "NOT_CONFIGURED", req.provider, FALSE, 0)
    ELSE Null

\* the checks of send before the retry loop: the error thrown, or Null
SendPrechecks(req) ==
    IF ~HasAdapter(req.provider) THEN UnknownProvider(req.provider)
    ELSE IF ~IsConfigured(req.provider)
    THEN GatewayError(<<Msg("Provider is not configured", <<>>)>>,
                      "NOT_CONFIGURED", req.provider, FALSE, 0)
    ELSE IF ~validateRequest(req).valid
    THEN CapabilityError(validateRequest(req).errors, "vision", req.model, req.provider)
    ELSE Null

\* a loop that runs one iteration too many
LoopContinuesOneMore(a, maxRetries) == a <= maxRetries + 1

\* the for-loop condition of the retry loop
LoopContinues(a, maxRetries) == a <= maxRetries

\* "Don't retry client errors (4xx)": the test that re-throws at once
IsClientError(error) ==
    /\ IsGatewayError(error)
    /\ error.hasStatus /\ error.statusCode # 0
    /\ error.statusCode < 500

\* a delay test that is off by one
DelayFollowsOffByOne(a, maxRetries) == a < maxRetries - 1

\* whether a backoff delay follows the failed attempt
DelayFollows(a, maxRetries) == a < maxRetries

\* a backoff computed from the number of the next attempt
BackoffDelayFromNextAttempt(backoffMs, backoffMultiplier, a) ==
    backoffMs * Pow(backoffMultiplier, a + 1)

\* backoffMs * Math.pow(backoffMultiplier, attempt)
BackoffDelay(backoffMs, backoffMultiplier, a) == backoffMs * Pow(backoffMultiplier, a)

\* a catch block that keeps the first error it saw
KeepFirstError(previous, error) == IF previous = Null THEN error ELSE previous

\* lastError = error, in the catch block
LastErrorAfter(previous, error) == error

SendStart ==
    /\ op = "send" /\ pc = "start"
    /\ IF SendPrechecks(request) # Null
       THEN /\ result' = SendPrechecks(request)
            /\ pc' = "thrown"
       ELSE /\ pc' = "loop"
            /\ UNCHANGED result
    /\ attempt' = 0
    /\ lastError' = Null
    /\ UNCHANGED <<defaultModel, extractor, op, calls, request, configured, capabilityCache, retry, history,
                   wire, wireEnd, consumed, buffer, acc, yielded, delivered>>

\* one iteration of the loop up to its first await: adapter.send and the catch
SendAttempt ==
    /\ op = "send" /\ pc = "loop"
    /\ LoopContinues(attempt, retry.maxRetries)
    /\ \E net \in NetworkOutcomes :
         LET raw == AdapterSend(request.provider, request, net)
             out == IF IsError(raw)
                    THEN [raw EXCEPT !.raisedAt = Len(Attempts(history)) + 1]
                    ELSE raw
         IN  /\ history' = Append(history, [kind |-> "attempt", outcome |-> out])
             /\ IF ~IsError(out)
                THEN /\ result' = out
                     /\ pc' = "returned"
                     /\ UNCHANGED <<lastError, attempt>>
                ELSE /\ lastError' = LastErrorAfter(lastError, out)
                     /\ IF IsClientError(out)
                        THEN /\ result' = out
                             /\ pc' = "thrown"
                             /\ UNCHANGED attempt
                        ELSE IF DelayFollows(attempt, retry.maxRetries)
                        THEN /\ pc' = "backoff"
                             /\ UNCHANGED <<result, attempt>>
                        ELSE /\ pc' = "loop"
                             /\ attempt' = attempt + 1
                             /\ UNCHANGED result
    /\ UNCHANGED <<defaultModel, extractor, op, calls, request, configured, capabilityCache, retry,
                   wire, wireEnd, consumed, buffer, acc, yielded, delivered>>

\* await new Promise(resolve => setTimeout(resolve, delay)), then attempt++
SendBackoff ==
    /\ op = "send" /\ pc = "backoff"
    /\ history' = Append(history,
          [kind |-> "delay",
           ms |-> BackoffDelay(retry.backoffMs, retry.backoffMultiplier, attempt)])
    /\ attempt' = attempt + 1
    /\ pc' = "loop"
    /\ UNCHANGED <<defaultModel, extractor, op, calls, request, configured, capabilityCache, retry, lastError, result,
                   wire, wireEnd, consumed, buffer, acc, yielded, delivered>>

\* the loop ran out: throw lastError
SendExhausted ==
    /\ op = "send" /\ pc = "loop"
    /\ ~LoopContinues(attempt, retry.maxRetries)
    /\ result' = lastError
    /\ pc' = "thrown"
    /\ UNCHANGED <<defaultModel, extractor, op, calls, request, configured, capabilityCache, retry, attempt, lastError, history,
                   wire, wireEnd, consumed, buffer, acc, yielded, delivered>>

----------------------------------------------------------------------------
\* Server-sent events: the byte stream, line buffering and JSON.parse.
\* A byte stream is a sequence of atoms: NL is "\n", "data:" followed by
\* " " is the 'data: ' prefix, "{" key "}" is the JSON text of the event
\* that JsonEvent gives for key; any other payload is no valid JSON.

NL == "\n"

DataLine(payload) == <<"data:", " ">> \o payload

\* buffer.split('\n')
RECURSIVE SplitLines(_)
SplitLines(s) ==
    IF \E i \in 1..Len(s) : s[i] = NL
    THEN LET i == CHOOSE k \in 1..Len(s) : s[k] = NL /\ \A j \in 1..(k - 1) : s[j] # NL
         IN  <<SubSeq(s, 1, i - 1)>> \o SplitLines(SubSeq(s, i + 1, Len(s)))
    ELSE <<s>>

\* a reader that throws away the partial line at the end of a read
RestOfBufferDropped(s) == <<>>

\* const lines = buffer.split('\n'); buffer = lines.pop() || ''
CompleteLines(s) == SubSeq(SplitLines(s), 1, Len(SplitLines(s)) - 1)
RestOfBuffer(s) == SplitLines(s)[Len(SplitLines(s))]

\* line.startsWith('data: ')
IsDataLine(line) == StartsWith(line, <<"data:", " ">>)

\* line.slice(6)
Payload(line) == SubSeq(line, 3, Len(line))

\* String.prototype.trim
RECURSIVE Trim(_)
Trim(s) ==
    IF s # <<>> /\ Head(s) = " " THEN Trim(Tail(s))
    ELSE IF s # <<>> /\ s[Len(s)] = " " THEN Trim(SubSeq(s, 1, Len(s) - 1))
    ELSE s

\* the events a provider writes, by the key that stands for their JSON text
JsonEvent(key) ==
    LET e == [type |-> "none", hasMessage |-> FALSE, deltaType |-> "none",
              text |-> <<>>, stop_reason |-> "", finish_reason |-> "",
              input_tokens |-> 0, output_tokens |-> 0]
    IN  CASE key = "message_start" ->
               [e EXCEPT !.type = "message_start", !.hasMessage = TRUE, !.input_tokens = 5]
          [] key = "content_block_start" -> [e EXCEPT !.type = "content_block_start"]
          [] key = "content_block_stop" -> [e EXCEPT !.type = "content_block_stop"]
          [] key = "text_a" ->
               [e EXCEPT !.type = "content_block_delta", !.deltaType = "text_delta",
                         !.text = <<"a">>]
          [] key = "text_b" ->
               [e EXCEPT !.type = "content_block_delta", !.deltaType = "text_delta",
                         !.text = <<"b">>]
          [] key = "message_delta" ->
               [e EXCEPT !.type = "message_delta", !.stop_reason = "max_tokens",
                         !.output_tokens = 9]
          [] key = "message_stop" -> [e EXCEPT !.type = "message_stop"]
          [] key = "choice_a" -> [e EXCEPT !.type = "chunk", !.text = <<"a">>]
          [] key = "choice_b" -> [e EXCEPT !.type = "chunk", !.text = <<"b">>]
          [] key = "choice_length" -> [e EXCEPT !.type = "chunk", !.finish_reason = "length"]
          [] OTHER -> e

JsonKeys == {"message_start", "content_block_start", "content_block_stop", "text_a",
             "text_b", "message_delta", "message_stop", "choice_a", "choice_b",
             "choice_length"}

\* a parser that accepts a JSON text cut short before its closing brace
ParsesLeniently(data) == Len(data) >= 2 /\ data[1] = "{" /\ data[2] \in JsonKeys

\* whether JSON.parse(data) returns; it throws on anything else
ParsesAsJson(data) == Len(data) = 3 /\ data[1] = "{" /\ data[3] = "}" /\ data[2] \in JsonKeys

JsonParse(data) == JsonEvent(data[2])

----------------------------------------------------------------------------
\* AnthropicAdapter.sendStream.

\* the accumulators declared before the read loop
AnthropicStreamInit ==
    [fullResponse |-> Null, inputTokens |-> 0, outputTokens |-> 0]

\* event.message of a message_start event
AnthropicStartMessage ==
    [kind |-> "message", id |-> "msg_1", model |-> AnthropicDefaultModel,
     content |-> <<>>, stop_reason |-> "",
     usage |-> [input_tokens |-> 5, output_tokens |-> 0]]

\* the body of the for-loop over lines: the accumulators after the line and
\* the chunks it yields
AnthropicProcessLine(a, line) ==
    IF ~IsDataLine(line) THEN [acc |-> a, out |-> <<>>]
    ELSE IF Payload(line) = <<"[DONE]">> THEN [acc |-> a, out |-> <<>>]
    ELSE IF ~ParsesAsJson(Payload(line)) THEN [acc |-> a, out |-> <<>>]
    ELSE LET event == JsonParse(Payload(line))
         IN  CASE event.type = "message_start" ->
                    [acc |-> [a EXCEPT
                                !.fullResponse = IF event.hasMessage
                                                 THEN AnthropicStartMessage ELSE Null,
                                !.inputTokens = IF event.hasMessage /\ event.input_tokens # 0
                                                THEN event.input_tokens ELSE @],
                     out |-> <<[type |-> "message_start"]>>]
               [] event.type = "content_block_start" ->
                    [acc |-> a, out |-> <<[type |-> "content_block_start"]>>]
               [] event.type = "content_block_delta" ->
                    [acc |-> a,
                     out |-> IF event.deltaType = "text_delta"
                             THEN <<[type |-> "text_delta", text |-> event.text]>>
                             ELSE <<>>]
               [] event.type = "content_block_stop" ->
                    [acc |-> a, out |-> <<[type |-> "content_block_stop"]>>]
               [] event.type = "message_delta" ->
                    [acc |-> [a EXCEPT
                                !.outputTokens = IF event.output_tokens # 0
                                                 THEN event.output_tokens ELSE @,
                                !.fullResponse = IF @ # Null /\ event.stop_reason # ""
                                                 THEN [@ EXCEPT !.stop_reason = event.stop_reason]
                                                 ELSE @],
                     out |-> <<>>]
               [] event.type = "message_stop" ->
                    [acc |-> a,
                     out |-> <<[type |-> "message_stop",
                                usage |-> [inputTokens |-> a.inputTokens,
                                           outputTokens |-> a.outputTokens]]>>]
               [] OTHER -> [acc |-> a, out |-> <<>>]

\* the code after the read loop: the final response, or STREAM_ERROR
AnthropicStreamFinish(a, req) ==
    IF a.fullResponse # Null
    THEN [out |-> <<>>,
          final |-> AnthropicTransformResponse(
                        [a.fullResponse EXCEPT
                            !.usage = [input_tokens |-> a.inputTokens,
                                       output_tokens |-> a.outputTokens]])]
    ELSE [out |-> <<>>,
          final |-> GatewayError(<<Msg("Stream ended without complete response", <<>>)>>,
                                 "STREAM_ERROR", "anthropic", FALSE, 0)]

----------------------------------------------------------------------------
\* OpenAIAdapter.sendStream.

\* the accumulators declared before the read loop
OpenAIStreamInit ==
    [fullContent |-> <<>>, finishReason |-> "stop"]

OpenAIProcessLine(a, line) ==
    IF ~IsDataLine(line) THEN [acc |-> a, out |-> <<>>]
    ELSE IF Trim(Payload(line)) = <<"[DONE]">> THEN [acc |-> a, out |-> <<>>]
    ELSE IF ~ParsesAsJson(Trim(Payload(line))) THEN [acc |-> a, out |-> <<>>]
    ELSE LET chunk == JsonParse(Trim(Payload(line)))
         IN  [acc |-> [a EXCEPT
                         !.fullContent = IF Truthy(chunk.text) THEN @ \o chunk.text ELSE @,
                         !.finishReason = IF chunk.finish_reason # ""
                                          THEN chunk.finish_reason ELSE @],
              out |-> IF Truthy(chunk.text)
                      THEN <<[type |-> "text_delta", text |-> chunk.text]>>
                      ELSE <<>>]

\* the code after the read loop: message_stop, then the synthetic response
OpenAIStreamFinish(a, req) ==
    [out |-> <<[type |-> "message_stop"]>>,
     final |-> OpenAITransformResponse(
                   [id |-> "stream",
                    model |-> IF req.model # <<>> THEN req.model ELSE defaultModel["openai"],
                    choices |-> <<[message |-> [content |-> a.fullContent],
                                   finish_reason |-> a.finishReason]>>,
                    usage |-> [prompt_tokens |-> 0, completion_tokens |-> 0]])]

----------------------------------------------------------------------------
\* Both adapters behind the ProviderAdapter interface.

ProcessLine(providerId, a, line) ==
    IF providerId = "anthropic" THEN AnthropicProcessLine(a, line)
    ELSE OpenAIProcessLine(a, line)

\* the for-loop over the complete lines of one read
RECURSIVE ProcessLines(_, _, _)
ProcessLines(providerId, a, lines) ==
    IF lines = <<>> THEN [acc |-> a, out |-> <<>>]
    ELSE LET first == ProcessLine(providerId, a, Head(lines))
             rest == ProcessLines(providerId, first.acc, Tail(lines))
         IN  [acc |-> rest.acc, out |-> first.out \o rest.out]

StreamFinish(providerId, a, req) ==
    IF providerId = "anthropic" THEN AnthropicStreamFinish(a, req)
    ELSE OpenAIStreamFinish(a, req)

\* the chunks an adapter yields before its first read
FirstChunks(providerId) ==
    IF providerId = "anthropic" THEN <<>> ELSE <<[type |-> "message_start"]>>

TransformRequest(providerId, req) ==
    IF providerId = "anthropic" THEN AnthropicTransformRequest(req)
    ELSE OpenAITransformRequest(req)

\* sendStream of an adapter up to the first read: the error thrown, or Null
StreamOpenError(providerId, req, net) ==
    IF ~IsConfigured(providerId)
    THEN GatewayError(<<Msg("API key not configured", <<>>)>>,
                      "NOT_CONFIGURED", providerId, FALSE, 0)
    ELSE IF IsError(TransformRequest(providerId, req)) THEN TransformRequest(providerId, req)
    ELSE IF net.kind = "reject" THEN PlainError(<<Msg("fetch failed", <<>>)>>)
    ELSE IF net.kind = "http" /\ ~ResponseOk(net.status)
    THEN GatewayError(<<Msg("API error", <<>>)>>, "API_ERROR", providerId, TRUE, net.status)
    ELSE IF net.kind = "nobody"
    THEN GatewayError(<<Msg("No response body for streaming", <<>>)>>,
                      "STREAM_ERROR", providerId, FALSE, 0)
    ELSE Null

----------------------------------------------------------------------------
\* The byte streams a provider may send.

AnthropicWireLines ==
    { DataLine(<<"{", k, "}">>) :
        k \in {"message_start", "text_a", "text_b", "message_delta", "message_stop"} }
    \cup { DataLine(<<"{", "message_stop">>), <<>> }

OpenAIWireLines ==
    { DataLine(<<"{", k, "}">>) : k \in {"choice_a", "choice_b", "choice_length"} }
    \cup { DataLine(<<"[DONE]">>), DataLine(<<"{", "choice_a">>), <<>> }

WireLines(providerId) ==
    IF providerId = "anthropic" THEN AnthropicWireLines ELSE OpenAIWireLines

\* lines.join('\n')
RECURSIVE JoinLines(_)
JoinLines(ls) ==
    IF ls = <<>> THEN <<>>
    ELSE IF Len(ls) = 1 THEN Head(ls)
    ELSE Head(ls) \o <<NL>> \o JoinLines(Tail(ls))

\* up to MaxLines lines, the last one with or without its newline
Streams(providerId) ==
    UNION { {JoinLines(ls), JoinLines(ls) \o <<NL>>} :
              ls \in SeqsUpTo(WireLines(providerId), MaxLines) \ {<<>>} }
    \cup {<<>>}

\* what the HTTP exchange of sendStream can come to
StreamOutcomes(providerId) ==
    {[kind |-> "reject"], [kind |-> "nobody"]}
    \cup {[kind |-> "http", status |-> st] : st \in HttpStatuses \ {200}}
    \cup {[kind |-> "body", bytes |-> b, end |-> e] :
            b \in Streams(providerId), e \in {"eof", "abort"}}

----------------------------------------------------------------------------
\* VLMGateway.sendStream.

StreamCalls(h) == SelectSeq(h, LAMBDA e : e.kind = "sendStream")

\* the checks of sendStream before the adapter is called: the error, or Null
StreamPrechecks(req) ==
    IF ~HasAdapter(req.provider) THEN UnknownProvider(req.provider)
    ELSE IF ~IsConfigured(req.provider)
    THEN GatewayError(<<Msg("Provider is not configured", <<>>)>>,
                      "NOT_CONFIGURED", req.provider, FALSE, 0)
    ELSE IF ~validateRequest(req).valid
    THEN CapabilityError(validateRequest(req).errors, "vision", req.model, req.provider)
    ELSE Null

\* a sendStream that starts the adapter's stream again after a failure
RestartAfterStreamError == "call"

\* where sendStream goes when generator.next() throws: nothing catches it
PcAfterStreamError == "thrown"

\* a loop that hands on only the chunks of the latest read
GatewayForwardLatest(sofar, chunks) == chunks

\* the while-loop of sendStream: every value of the adapter is yielded
GatewayForward(sofar, chunks) == sofar \o chunks

StreamInit(providerId) ==
    IF providerId = "anthropic" THEN AnthropicStreamInit ELSE OpenAIStreamInit

StreamStart ==
    /\ op = "sendStream" /\ pc = "start"
    /\ IF StreamPrechecks(request) # Null
       THEN /\ result' = StreamPrechecks(request)
            /\ pc' = "thrown"
       ELSE /\ pc' = "call"
            /\ UNCHANGED result
    /\ UNCHANGED <<defaultModel, extractor, op, calls, request, configured, capabilityCache, retry, attempt, lastError, history,
                   wire, wireEnd, consumed, buffer, acc, yielded, delivered>>

\* adapter.sendStream(request) and the generator's run up to its first read
StreamOpen ==
    /\ op = "sendStream" /\ pc = "call"
    /\ history' = Append(history, [kind |-> "sendStream"])
    /\ \E net \in StreamOutcomes(request.provider) :
         IF StreamOpenError(request.provider, request, net) # Null
         THEN /\ result' = StreamOpenError(request.provider, request, net)
              /\ pc' = PcAfterStreamError
              /\ UNCHANGED <<wire, wireEnd, consumed, buffer, acc, yielded, delivered>>
         ELSE /\ wire' = net.bytes
              /\ wireEnd' = net.end
              /\ consumed' = <<>>
              /\ buffer' = <<>>
              /\ acc' = StreamInit(request.provider)
              /\ yielded' = FirstChunks(request.provider)
              /\ delivered' = GatewayForward(delivered, FirstChunks(request.provider))
              /\ pc' = "reading"
              /\ UNCHANGED result
    /\ UNCHANGED <<defaultModel, extractor, op, calls, request, configured, capabilityCache, retry, attempt, lastError>>

\* one reader.read() that hands out bytes, and the loop over its lines
StreamRead ==
    /\ op = "sendStream" /\ pc = "reading"
    /\ wire # <<>>
    /\ \E n \in 1..MaxRead :
         /\ n <= Len(wire)
         /\ LET value == SubSeq(wire, 1, n)
                text == buffer \o value
                step == ProcessLines(request.provider, acc, CompleteLines(text))
            IN  /\ wire' = SubSeq(wire, n + 1, Len(wire))
                /\ consumed' = consumed \o value
                /\ buffer' = RestOfBuffer(text)
                /\ acc' = step.acc
                /\ yielded' = yielded \o step.out
                /\ delivered' = GatewayForward(delivered, step.out)
    /\ UNCHANGED <<defaultModel, extractor, op, calls, request, configured, capabilityCache, retry, pc, attempt, lastError, history,
                   result, wireEnd>>

\* reader.read() reports done: the code after the loop
StreamEnd ==
    /\ op = "sendStream" /\ pc = "reading"
    /\ wire = <<>> /\ wireEnd = "eof"
    /\ LET fin == StreamFinish(request.provider, acc, request)
       IN  /\ yielded' = yielded \o fin.out
           /\ delivered' = GatewayForward(delivered, fin.out)
           /\ result' = fin.final
           /\ pc' = IF IsError(fin.final) THEN PcAfterStreamError ELSE "returned"
    /\ UNCHANGED <<defaultModel, extractor, op, calls, request, configured, capabilityCache, retry, attempt, lastError, history,
                   wire, wireEnd, consumed, buffer, acc>>

\* reader.read() rejects: the connection broke in the middle of the stream
StreamAbort ==
    /\ op = "sendStream" /\ pc = "reading"
    /\ wire = <<>> /\ wireEnd = "abort"
    /\ result' = PlainError(<<Msg("read failed", <<>>)>>)
    /\ pc' = PcAfterStreamError
    /\ UNCHANGED <<defaultModel, extractor, op, calls, request, configured, capabilityCache, retry, attempt, lastError, history,
                   wire, wireEnd, consumed, buffer, acc, yielded, delivered>>

----------------------------------------------------------------------------
\* The requests and configurations explored.

ProviderIds == {"anthropic", "openai", "fireworks"}

ModelIds ==
    { <<"claude", "sonnet", "4", "20250514">>,
      <<"claude", "3", "opus", "latest">>,
      <<"o1", "mini">>,
      <<>> }

Contents(n) == {StringContent(<<"hi">>)} \cup {ArrayContent(ps) : ps \in SeqsUpTo(Parts, n)}

Request(provider, model, messages, system) ==
    [provider |-> provider, model |-> model, messages |-> messages, system |-> system]

SendRequests ==
    { Request(p, m, <<Message("user", c)>>, <<>>) :
        p \in ProviderIds, m \in ModelIds, c \in Contents(1) }

\* up to two messages: the first with up to MaxParts parts, the second with
\* at most one
ValidateRequests ==
    { Request(p, m, ms, <<>>) :
        p \in ProviderIds, m \in ModelIds,
        ms \in {<<>>}
               \cup {<<Message("user", c)>> : c \in Contents(MaxParts)}
               \cup {<<Message("user", c), Message("assistant", d)>> :
                        c \in Contents(MaxParts), d \in Contents(1)} }

RetryConfigs ==
    [maxRetries : 0..MaxRetriesBound, backoffMs : {1000, 250}, backoffMultiplier : {2, 3}]

\* the adapters as the gateway's constructor builds them from a
\* configuration that names no default model
DefaultModels == [anthropic |-> AnthropicDefaultModel, openai |-> OpenAIDefaultModel]

\* no extraction under way
ExtractorIdle ==
    /\ pdf = Null
    /\ pageNumber = 0
    /\ emitted = <<>>

\* a gateway on which nothing has been called yet
GatewayIdle ==
    /\ capabilityCache = <<>>
    /\ calls = <<>>
    /\ attempt = 0
    /\ lastError = Null
    /\ history = <<>>
    /\ result = Null
    /\ wire = <<>>
    /\ wireEnd = "eof"
    /\ consumed = <<>>
    /\ buffer = <<>>
    /\ acc = Null
    /\ yielded = <<>>
    /\ delivered = <<>>

Idle ==
    /\ GatewayIdle
    /\ defaultModel = DefaultModels
    /\ ExtractorIdle

Init ==
    /\ op = "send"
    /\ pc = "start"
    /\ request \in SendRequests
    /\ configured \in SUBSET {"anthropic", "openai"}
    /\ retry \in RetryConfigs
    /\ Idle

\* a caller invoking the public validateRequest
ValidateRequest ==
    /\ op = "validate" /\ pc = "start"
    /\ result' = validateRequest(request)
    /\ pc' = IF IsError(validateRequest(request)) THEN "thrown" ELSE "returned"
    /\ UNCHANGED <<defaultModel, extractor, op, calls, request, configured, capabilityCache, retry, attempt, lastError, history,
                   wire, wireEnd, consumed, buffer, acc, yielded, delivered>>

InitValidate ==
    /\ op = "validate"
    /\ pc = "start"
    /\ request \in ValidateRequests
    /\ configured \in {{}, {"anthropic", "openai"}}
    /\ retry = [maxRetries |-> 3, backoffMs |-> 1000, backoffMultiplier |-> 2]
    /\ Idle

NextValidate == ValidateRequest

StreamRequests ==
    { Request(p, <<>>, <<Message("user", c)>>, <<>>) :
        p \in ProviderIds,
        c \in {StringContent(<<"hi">>), ArrayContent(<<MediaPart("audio")>>),
               ArrayContent(<<MediaPart("tool")>>)} }

InitStream ==
    /\ op = "sendStream"
    /\ pc = "start"
    /\ request \in StreamRequests
    /\ configured \in {{}, {"anthropic", "openai"}}
    /\ retry = [maxRetries |-> 3, backoffMs |-> 1000, backoffMultiplier |-> 2]
    /\ Idle

NextStream ==
    \/ StreamStart
    \/ StreamOpen
    \/ StreamRead
    \/ StreamEnd
    \/ StreamAbort

SpecStream == InitStream /\ [][NextStream]_vars

SpecValidate == InitValidate /\ [][NextValidate]_vars

Next ==
    \/ SendStart
    \/ SendAttempt
    \/ SendBackoff
    \/ SendExhausted

Spec == Init /\ [][Next]_vars


----------------------------------------------------------------------------
\* VLMGateway.getProviderCapabilities and the capability cache.

\* adapter.getCapabilities(): a new object on every call, whose models
\* field refers to the adapter module's MODEL_CAPABILITIES
GetCapabilities(providerId) ==
    IF providerId = "anthropic"
    THEN [id |-> "anthropic", name |-> "Anthropic", models |-> "MODEL_CAPABILITIES",
          defaultModel |-> defaultModel["anthropic"], baseUrl |-> "https://api.anthropic.com"]
    ELSE [id |-> "openai", name |-> "OpenAI", models |-> "MODEL_CAPABILITIES",
          defaultModel |-> defaultModel["openai"], baseUrl |-> "https://api.openai.com"]

\* a cache write that forgets the entries of the other providers
CacheReplacedBy(cache, providerId, capabilities) ==
    [p \in {providerId} |-> capabilities]

\* this.capabilityCache.set(providerId, capabilities)
CacheSet(cache, providerId, capabilities) ==
    [p \in DOMAIN cache \cup {providerId} |->
        IF p = providerId THEN capabilities ELSE cache[p]]

\* getProviderCapabilities run to its end for each of a set of provider ids
RECURSIVE CacheFill(_, _)
CacheFill(cache, ids) ==
    IF ids = {} THEN cache
    ELSE LET p == CHOOSE x \in ids : TRUE
         IN  CacheFill(IF p \in DOMAIN cache THEN cache
                       ELSE CacheSet(cache, p, GetCapabilities(p)),
                       ids \ {p})

\* the providers the loop of findCapableProvider fetches, in order
RECURSIVE OthersFetched(_, _, _)
OthersFetched(providers, contentTypes, preferredProvider) ==
    IF providers = <<>> THEN <<>>
    ELSE IF Head(providers) = preferredProvider
    THEN OthersFetched(Tail(providers), contentTypes, preferredProvider)
    ELSE IF FindCapableModel(Head(providers), contentTypes) # Null
    THEN <<Head(providers)>>
    ELSE <<Head(providers)>> \o OthersFetched(Tail(providers), contentTypes, preferredProvider)

\* the getProviderCapabilities calls one findCapableProvider call makes, in
\* order: for the preferred provider one by findCapableProvider itself and
\* one by findCapableModel
FetchSequence(contentTypes, preferredProvider) ==
    LET providers == ListConfiguredProviders
        preferredListed ==
            /\ preferredProvider \notin {"undefined", ""}
            /\ \E i \in 1..Len(providers) : providers[i] = preferredProvider
    IN  (IF preferredListed THEN <<preferredProvider, preferredProvider>> ELSE <<>>)
        \o (IF preferredListed /\ FindCapableModel(preferredProvider, contentTypes) # Null
            THEN <<>>
            ELSE OthersFetched(providers, contentTypes, preferredProvider))

\* most calls in flight at the same time
MaxCallers == 2

\* a call in flight: todo are the provider ids it still has to look up,
\* fetched what its last adapter.getCapabilities() returned
Call(method, todo) ==
    [method |-> method, todo |-> todo,
     pc |-> IF todo = <<>> THEN "done" ELSE "check",
     fetched |-> Null, error |-> Null]

NewCalls ==
    { Call("getProviderCapabilities", <<p>>) : p \in ProviderIds }
    \cup { Call("findCapableProvider", FetchSequence(ct, pref)) :
             ct \in {<<>>, <<"pdf">>, <<"audio">>},
             pref \in {"undefined", "anthropic", "openai"} }

InitCache ==
    /\ op = "getProviderCapabilities"
    /\ pc = "start"
    /\ request = Null
    /\ configured \in {{"openai"}, {"anthropic", "openai"}}
    /\ retry = [maxRetries |-> 3, backoffMs |-> 1000, backoffMultiplier |-> 2]
    /\ attempt = 0
    /\ lastError = Null
    /\ history = <<>>
    /\ result = Null
    /\ wire = <<>>
    /\ wireEnd = "eof"
    /\ consumed = <<>>
    /\ buffer = <<>>
    /\ acc = Null
    /\ yielded = <<>>
    /\ delivered = <<>>
    /\ defaultModel = DefaultModels
    /\ ExtractorIdle
    /\ capabilityCache = <<>>
    /\ calls \in [1..MaxCallers -> NewCalls]

\* a call after one lookup has returned
Advance(call) ==
    [call EXCEPT !.todo = Tail(@),
                 !.pc = IF Tail(call.todo) = <<>> THEN "done" ELSE "check"]

\* getProviderCapabilities up to its await: the cache test, the adapter
\* lookup and the call of adapter.getCapabilities()
CacheLookup(c) ==
    /\ op = "getProviderCapabilities"
    /\ calls[c].pc = "check"
    /\ LET p == Head(calls[c].todo)
       IN  calls' = [calls EXCEPT ![c] =
              IF p \in DOMAIN capabilityCache THEN Advance(@)
              ELSE IF ~HasAdapter(p)
              THEN [@ EXCEPT !.pc = "thrown", !.error = UnknownProvider(p)]
              ELSE [@ EXCEPT !.pc = "await", !.fetched = GetCapabilities(p)]]
    /\ UNCHANGED <<defaultModel, extractor, op, request, configured, capabilityCache, retry, pc, attempt,
                   lastError, history, result, wire, wireEnd, consumed, buffer, acc,
                   yielded, delivered>>

\* getProviderCapabilities after its await: the cache write and the return
CacheStore(c) ==
    /\ op = "getProviderCapabilities"
    /\ calls[c].pc = "await"
    /\ capabilityCache' = CacheSet(capabilityCache, Head(calls[c].todo), calls[c].fetched)
    /\ calls' = [calls EXCEPT ![c] = Advance(@)]
    /\ UNCHANGED <<defaultModel, extractor, op, request, configured, retry, pc, attempt,
                   lastError, history, result, wire, wireEnd, consumed, buffer, acc,
                   yielded, delivered>>

NextCache ==
    \/ \E c \in 1..MaxCallers : CacheLookup(c)
    \/ \E c \in 1..MaxCallers : CacheStore(c)

SpecCache == InitCache /\ [][NextCache]_vars

----------------------------------------------------------------------------
\* Calls of findCapableProvider.

\* most content types named in one findCapableProvider call
MaxTypes == 2

FindArgs ==
    [contentTypes : SeqsUpTo(KnownPartTypes, MaxTypes),
     preferredProvider : {"undefined", "", "anthropic", "openai", "fireworks"}]

InitFind ==
    /\ op = "findCapableProvider"
    /\ pc = "start"
    /\ request \in FindArgs
    /\ configured \in SUBSET {"anthropic", "openai"}
    /\ retry = [maxRetries |-> 3, backoffMs |-> 1000, backoffMultiplier |-> 2]
    /\ Idle

\* one call of findCapableProvider; getProviderCapabilities caches what it
\* fetched
FindCapableProviderCall ==
    /\ op = "findCapableProvider" /\ pc = "start"
    /\ LET r == FindCapableProvider(request.contentTypes, request.preferredProvider)
       IN  /\ result' = r.found
           /\ capabilityCache' = CacheFill(capabilityCache, r.tried)
    /\ pc' = "returned"
    /\ UNCHANGED <<defaultModel, extractor, op, calls, request, configured, retry, attempt, lastError, history,
                   wire, wireEnd, consumed, buffer, acc, yielded, delivered>>

\* the caller asks again, on the same gateway
FindAgain ==
    /\ op = "findCapableProvider" /\ pc = "returned"
    /\ request' \in FindArgs
    /\ result' = Null
    /\ pc' = "start"
    /\ UNCHANGED <<defaultModel, extractor, op, calls, configured, capabilityCache, retry, attempt, lastError, history,
                   wire, wireEnd, consumed, buffer, acc, yielded, delivered>>

NextFind ==
    \/ FindCapableProviderCall
    \/ FindAgain

SpecFind == InitFind /\ [][NextFind]_vars

----------------------------------------------------------------------------
\* Calls of getModelCapabilities.

\* most hyphen-separated pieces in an unregistered model identifier
MaxIdLen == 4

\* the pieces model identifiers are made of
ModelTokens == {"claude", "3", "opus", "gpt", "4o", "mini", "o1", "constructor"}

RegisteredIds(table) == {table[i].id : i \in 1..Len(table)}

CapabilityArgs ==
    [provider : ProviderIds,
     model : SeqsUpTo(ModelTokens, MaxIdLen)
             \cup {<<"gpt", "4", "turbo", "preview">>, <<"gpt", "4">>, <<"toString">>}
             \cup RegisteredIds(ANTHROPIC_MODEL_CAPABILITIES)
             \cup RegisteredIds(OPENAI_MODEL_CAPABILITIES)]

InitCaps ==
    /\ op = "getModelCapabilities"
    /\ pc = "start"
    /\ request \in CapabilityArgs
    /\ configured \in {{}, {"anthropic", "openai"}}
    /\ retry = [maxRetries |-> 3, backoffMs |-> 1000, backoffMultiplier |-> 2]
    /\ Idle

\* VLMGateway.getModelCapabilities(providerId, model)
GetModelCapabilitiesCall ==
    /\ op = "getModelCapabilities" /\ pc = "start"
    /\ IF HasAdapter(request.provider)
       THEN /\ result' = GetModelCapabilities(request.provider, request.model)
            /\ pc' = "returned"
       ELSE /\ result' = UnknownProvider(request.provider)
            /\ pc' = "thrown"
    /\ UNCHANGED <<defaultModel, extractor, op, calls, request, configured, capabilityCache, retry, attempt, lastError,
                   history, wire, wireEnd, consumed, buffer, acc, yielded, delivered>>

NextCaps == GetModelCapabilitiesCall

SpecCaps == InitCaps /\ [][NextCaps]_vars

----------------------------------------------------------------------------
\* Calls of an adapter's transformRequest.

Roles == {"user", "assistant", "system"}

\* the contents of a message: a string (one of them empty) or at most one part
MessageContents == Contents(1) \cup {StringContent(<<>>), StringContent(<<"yo">>)}

\* one or two messages of any role, for the models of send and one whose
\* name Object.prototype defines
TransformRequests ==
    { Request(p, m, ms, sys) :
        p \in {"anthropic", "openai"}, m \in ModelIds \cup {<<"constructor">>},
        ms \in {<<Message(r, c)>> : r \in Roles, c \in MessageContents}
               \cup {<<Message(r, c), Message(q, e)>> :
                        r \in Roles, c \in MessageContents,
                        q \in Roles, e \in MessageContents},
        sys \in {<<>>, <<"be brief">>} }

InitTransform ==
    /\ op = "transformRequest"
    /\ pc = "start"
    /\ request \in TransformRequests
    /\ configured = {"anthropic", "openai"}
    /\ retry = [maxRetries |-> 3, backoffMs |-> 1000, backoffMultiplier |-> 2]
    /\ Idle

\* adapter.transformRequest(request): the wire request, or the error thrown
TransformRequestCall ==
    /\ op = "transformRequest" /\ pc = "start"
    /\ result' = TransformRequest(request.provider, request)
    /\ pc' = IF IsError(TransformRequest(request.provider, request))
             THEN "thrown" ELSE "returned"
    /\ UNCHANGED <<defaultModel, extractor, op, calls, request, configured, capabilityCache, retry, attempt, lastError,
                   history, wire, wireEnd, consumed, buffer, acc, yielded, delivered>>

NextTransform == TransformRequestCall

SpecTransform == InitTransform /\ [][NextTransform]_vars

----------------------------------------------------------------------------
\* A text-only exchange: transformRequest, then transformResponse on the
\* provider's answer.

\* texts: the empty string, one piece, surrounding blanks, a blank line
Texts == {<<>>, <<"hi">>, <<" ", "hi", " ">>, <<"a", "\n\n", "b">>}

\* a request with a single text message: string content or one text part
TextRequests ==
    { Request(p, m, <<Message(r, c)>>, sys) :
        p \in {"anthropic", "openai"}, m \in ModelIds, r \in {"user", "assistant"},
        c \in {StringContent(t) : t \in Texts} \cup {ArrayContent(<<TextPart(t)>>) : t \in Texts},
        sys \in {<<>>, <<"be brief">>} }

\* the stop reasons a provider response may carry: the recognised ones of
\* both providers, an unrecognised one, none, the empty string, and names
\* that Object.prototype defines
ProviderStopReasons ==
    {"end_turn", "max_tokens", "stop_sequence", "tool_use",
     "stop", "length", "tool_calls", "content_filter",
     "pause_turn", "undefined", "", "constructor", "__proto__"}

\* a provider response that carries a text and a stop reason
AnthropicResponseWith(text, reason) ==
    [id |-> "msg_1", model |-> AnthropicDefaultModel,
     content |-> <<[type |-> "text", text |-> text]>>,
     stop_reason |-> reason,
     usage |-> [input_tokens |-> 7, output_tokens |-> 3]]

OpenAIResponseWith(text, reason) ==
    [id |-> "chatcmpl-1", model |-> OpenAIDefaultModel,
     choices |-> <<[message |-> [content |-> text], finish_reason |-> reason]>>,
     usage |-> [prompt_tokens |-> 7, completion_tokens |-> 3]]

\* the text of the last message of a wire request
WireText(wireRequest) ==
    LET w == wireRequest.messages[Len(wireRequest.messages)]
    IN  IF w.content.isString THEN w.content.text ELSE <<>>

InitExchange ==
    /\ op = "exchange"
    /\ pc = "start"
    /\ request \in TextRequests
    /\ configured = {"anthropic", "openai"}
    /\ retry = [maxRetries |-> 3, backoffMs |-> 1000, backoffMultiplier |-> 2]
    /\ Idle

\* adapter.transformRequest(request)
ExchangeTransformRequest ==
    /\ op = "exchange" /\ pc = "start"
    /\ history' = Append(history,
          [kind |-> "transformRequest",
           outcome |-> TransformRequest(request.provider, request)])
    /\ pc' = IF IsError(TransformRequest(request.provider, request))
             THEN "thrown" ELSE "sent"
    /\ result' = IF IsError(TransformRequest(request.provider, request))
                 THEN TransformRequest(request.provider, request) ELSE result
    /\ UNCHANGED <<defaultModel, extractor, op, calls, request, configured, capabilityCache, retry, attempt,
                   lastError, wire, wireEnd, consumed, buffer, acc, yielded, delivered>>

\* adapter.transformResponse on a response of the same provider that
\* carries the text sent
ExchangeTransformResponse ==
    /\ op = "exchange" /\ pc = "sent"
    /\ \E reason \in ProviderStopReasons :
         LET text == WireText(history[1].outcome)
             body == IF request.provider = "anthropic"
                     THEN AnthropicResponseWith(text, reason)
                     ELSE OpenAIResponseWith(text, reason)
         IN  /\ history' = Append(history, [kind |-> "response", outcome |-> body])
             /\ result' = IF request.provider = "anthropic"
                          THEN AnthropicTransformResponse(body)
                          ELSE OpenAITransformResponse(body)
    /\ pc' = "returned"
    /\ UNCHANGED <<defaultModel, extractor, op, calls, request, configured, capabilityCache, retry, attempt,
                   lastError, wire, wireEnd, consumed, buffer, acc, yielded, delivered>>

NextExchange ==
    \/ ExchangeTransformRequest
    \/ ExchangeTransformResponse

SpecExchange == InitExchange /\ [][NextExchange]_vars

----------------------------------------------------------------------------
\* Properties of request validation.

GatedTypes == {"image", "pdf", "audio", "video"}

\* the capability flag that gates a content type
FlagFor(capabilities, type) ==
    IF type = "image" THEN capabilities.vision
    ELSE IF type = "pdf" THEN capabilities.pdf
    ELSE IF type = "audio" THEN capabilities.audio
    ELSE capabilities.video

\* the wording by which a violation message names a content type
NamedBy(type) ==
    IF type = "image" THEN "does not support image input"
    ELSE IF type = "pdf" THEN "does not support native PDF input"
    ELSE IF type = "audio" THEN "does not support audio input"
    ELSE "does not support video input"

\* the positions <<message, part>> of the parts of array-content messages
PartPositions(req) ==
    UNION { {<<i, j>> : j \in 1..Len(req.messages[i].content.parts)} :
              i \in {k \in 1..Len(req.messages) : ~req.messages[k].content.isString} }

PartAt(req, pos) == req.messages[pos[1]].content.parts[pos[2]]

\* the parts whose type is gated by a capability the resolved model lacks
Offending(req) ==
    LET capabilities == GetModelCapabilities(req.provider, req.model)
    IN  { pos \in PartPositions(req) :
            /\ PartAt(req, pos).type \in GatedTypes
            /\ ~FlagFor(capabilities, PartAt(req, pos).type) }

\* C1: validateRequest returns one error per content part whose type is
\* image/pdf/audio/video and whose capability flag is false in the resolved
\* capability set, the error naming that content type and the model; all
\* violations are aggregated, and valid is true iff there is none.
C1_ValidateAggregatesAllViolations ==
    (op = "validate" /\ pc = "returned") =>
        /\ Len(result.errors) = Cardinality(Offending(request))
        /\ \A t \in GatedTypes :
              Cardinality({k \in 1..Len(result.errors) : result.errors[k].text = NamedBy(t)})
                = Cardinality({pos \in Offending(request) : PartAt(request, pos).type = t})
        /\ \A k \in 1..Len(result.errors) : result.errors[k].model = request.model
        /\ result.valid <=> (result.errors = <<>>)

\* two messages, each with a violation of a different kind, both reported
C1_Witness ==
    /\ op = "validate" /\ pc = "returned"
    /\ Len(request.messages) = 2
    /\ Len(result.errors) = 3
    /\ ~result.valid
    /\ \E k \in 1..3 : result.errors[k].text = NamedBy("pdf")
    /\ \E k \in 1..3 : result.errors[k].text = NamedBy("audio")
    /\ <<2, 1>> \in Offending(request)

----------------------------------------------------------------------------
\* Properties of VLMGateway.send.

LastOf(s) == s[Len(s)]

\* errors the retry policy of the specification names retryable: failures
\* that are no GatewayError, errors without a status code, and 5xx
PolicyRetryable(e) ==
    IsError(e) /\ (~IsGatewayError(e) \/ ~e.hasStatus \/ e.statusCode >= 500)

\* a GatewayError carrying a 4xx status code
Is4xx(e) ==
    IsError(e) /\ IsGatewayError(e) /\ e.hasStatus
               /\ e.statusCode >= 400 /\ e.statusCode <= 499

\* C2: send rejects at once, with UNKNOWN_PROVIDER, NOT_CONFIGURED or a
\* CapabilityError, when the provider has no adapter, the adapter is not
\* configured or validation fails: adapter.send is never invoked and no
\* backoff delay is taken.
C2_PrechecksRejectWithoutNetwork ==
    (op = "send" /\ pc # "start") =>
        LET unknown == ~HasAdapter(request.provider)
            unconfigured == ~unknown /\ ~IsConfigured(request.provider)
            invalid == ~unknown /\ ~unconfigured /\ Offending(request) # {}
        IN  (unknown \/ unconfigured \/ invalid) =>
              /\ pc = "thrown"
              /\ IsError(result)
              /\ result.code = IF unknown THEN "UNKNOWN_PROVIDER"
                               ELSE IF unconfigured THEN "NOT_CONFIGURED"
                               ELSE "CAPABILITY_ERROR"
              /\ (invalid => result.cls = "CapabilityError")
              /\ Attempts(history) = <<>>
              /\ Delays(history) = <<>>

C2_Witness ==
    /\ op = "send" /\ pc = "thrown"
    /\ IsConfigured(request.provider)
    /\ result.cls = "CapabilityError"
    /\ history = <<>>

\* C3: one send call invokes adapter.send at most maxRetries + 1 times and
\* takes at most maxRetries delays; when every attempt fails with a
\* retryable error it makes exactly maxRetries + 1 attempts, and no delay
\* follows the final attempt.
C3_RetryLoopBounded ==
    op = "send" =>
        /\ Len(Attempts(history)) <= retry.maxRetries + 1
        /\ Len(Delays(history)) <= retry.maxRetries
        /\ (Len(Attempts(history)) = retry.maxRetries + 1
               => LastOf(history).kind = "attempt")
        /\ (/\ pc = "thrown"
            /\ Attempts(history) # <<>>
            /\ \A i \in 1..Len(Attempts(history)) :
                  PolicyRetryable(Attempts(history)[i].outcome))
           => /\ Len(Attempts(history)) = retry.maxRetries + 1
              /\ Len(Delays(history)) = retry.maxRetries
              /\ LastOf(history).kind = "attempt"

C3_Witness ==
    /\ op = "send" /\ pc = "thrown"
    /\ retry.maxRetries = 3
    /\ Len(Attempts(history)) = 4
    /\ Len(Delays(history)) = 3
    /\ \A i \in 1..4 : PolicyRetryable(Attempts(history)[i].outcome)

\* C4: if the adapter fails with a retryable error on the first k attempts
\* and succeeds on attempt k+1, send returns that success response after
\* exactly k backoff delays and calls adapter.send no more.
C4_SuccessAfterKFailures ==
    op = "send" =>
        /\ (Attempts(history) # <<>> /\ ~IsError(LastOf(Attempts(history)).outcome))
              => pc = "returned"
        /\ (/\ pc = "thrown"
            /\ Attempts(history) # <<>>
            /\ PolicyRetryable(LastOf(Attempts(history)).outcome))
              => Len(Attempts(history)) = retry.maxRetries + 1
        /\ pc = "returned" =>
              LET k == Len(Attempts(history)) - 1
              IN  /\ k >= 0 /\ k <= retry.maxRetries
                  /\ \A i \in 1..k : IsError(Attempts(history)[i].outcome)
                  /\ result = Attempts(history)[k + 1].outcome
                  /\ result.kind = "response"
                  /\ Len(Delays(history)) = k
                  /\ LastOf(history).kind = "attempt"
                  /\ ~ENABLED SendAttempt

\* two 500 failures, then a success: returned after exactly two delays
C4_Witness ==
    /\ op = "send" /\ pc = "returned"
    /\ Len(Attempts(history)) = 3
    /\ \A i \in 1..2 : /\ IsError(Attempts(history)[i].outcome)
                       /\ Attempts(history)[i].outcome.statusCode = 500
    /\ result.kind = "response"
    /\ Len(Delays(history)) = 2

\* C5: every error thrown by adapter.send is retried while attempts remain,
\* except a GatewayError with a 4xx status code, which is re-thrown at once
\* with no delay and no further attempt.
C5_OnlyClientErrorsEndTheLoop ==
    op = "send" =>
        \A j \in 1..Len(Attempts(history)) :
            LET e == Attempts(history)[j].outcome
            IN  IsError(e) =>
                  IF Is4xx(e)
                  THEN /\ j = Len(Attempts(history))
                       /\ LastOf(history).kind = "attempt"
                       /\ pc = "thrown" /\ result = e
                  ELSE (j <= retry.maxRetries) =>
                          (j < Len(Attempts(history)) \/ pc # "thrown")

\* C6: the delay after failed attempt a (0-based) is
\* backoffMs * backoffMultiplier^a, and each delay lies between the failed
\* attempt and the next attempt.
C6_ExponentialBackoff ==
    op = "send" =>
        /\ \A i \in 1..Len(Delays(history)) :
              Delays(history)[i].ms = retry.backoffMs * (retry.backoffMultiplier ^ (i - 1))
        /\ \A j \in 1..Len(history) :
              history[j].kind = "delay" =>
                /\ j = 2 * Len(Delays(SubSeq(history, 1, j)))
                /\ history[j - 1].kind = "attempt"
                /\ IsError(history[j - 1].outcome)
                /\ IF j < Len(history)
                   THEN history[j + 1].kind = "attempt"
                   ELSE pc = "loop" /\ ENABLED SendAttempt

\* the default configuration waits 1000, 2000, 4000 ms
C6_Witness ==
    /\ op = "send"
    /\ retry = [maxRetries |-> 3, backoffMs |-> 1000, backoffMultiplier |-> 2]
    /\ Len(Delays(history)) = 3
    /\ Delays(history)[1].ms = 1000
    /\ Delays(history)[2].ms = 2000
    /\ Delays(history)[3].ms = 4000

\* C7: when every attempt fails and the retries are exhausted, the error
\* thrown is the very error raised by the last adapter.send attempt.
C7_LastErrorRethrown ==
    (/\ op = "send" /\ pc = "thrown"
     /\ Len(Attempts(history)) = retry.maxRetries + 1) =>
        /\ result = LastOf(Attempts(history)).outcome
        /\ result.raisedAt = retry.maxRetries + 1

\* exhausted after errors of different kinds: the last one is thrown
C7_Witness ==
    /\ op = "send" /\ pc = "thrown"
    /\ retry.maxRetries = 2
    /\ Len(Attempts(history)) = 3
    /\ Attempts(history)[1].outcome.code = "API_ERROR"
    /\ Attempts(history)[3].outcome.cls = "Error"
    /\ result.cls = "Error"
    /\ result.raisedAt = 3

----------------------------------------------------------------------------
\* Properties of VLMGateway.sendStream and of the adapters' sendStream.

\* the lines of a byte stream that carry the provider's terminal event
IsTerminalLine(providerId, line) ==
    /\ IsDataLine(line)
    /\ IF providerId = "anthropic"
       THEN /\ ParsesAsJson(Payload(line))
            /\ JsonParse(Payload(line)).type = "message_stop"
       ELSE Trim(Payload(line)) = <<"[DONE]">>

HasTerminalEvent(providerId, bytes) ==
    \E i \in 1..Len(SplitLines(bytes)) : IsTerminalLine(providerId, SplitLines(bytes)[i])

MessageStops(chunks) == {i \in 1..Len(chunks) : chunks[i].type = "message_stop"}

\* C8: sendStream makes the pre-checks of send and never retries: the
\* adapter's sendStream is started at most once, no backoff delay is taken,
\* a failure before or in the middle of the stream ends the call, and the
\* chunks delivered are the adapter's chunks, each once.
C8_StreamNeverRetried ==
    op = "sendStream" =>
        /\ Len(StreamCalls(history)) <= 1
        /\ Len(history) = Len(StreamCalls(history))
        /\ (pc # "start" =>
              LET unknown == ~HasAdapter(request.provider)
                  unconfigured == ~unknown /\ ~IsConfigured(request.provider)
                  invalid == ~unknown /\ ~unconfigured /\ Offending(request) # {}
              IN  (unknown \/ unconfigured \/ invalid) =>
                    /\ pc = "thrown"
                    /\ result.code = IF unknown THEN "UNKNOWN_PROVIDER"
                                     ELSE IF unconfigured THEN "NOT_CONFIGURED"
                                     ELSE "CAPABILITY_ERROR"
                    /\ history = <<>>)
        /\ (pc = "thrown" => IsError(result) /\ ~ENABLED NextStream)
        /\ delivered = yielded
        /\ Len(delivered) <= Len(CompleteLines(consumed)) + 2

\* the connection breaks after chunks were delivered: the call ends there
C8_Witness ==
    /\ op = "sendStream" /\ pc = "thrown"
    /\ wireEnd = "abort"
    /\ result.cls = "Error"
    /\ Len(delivered) >= 2
    /\ Len(StreamCalls(history)) = 1

\* C9: an adapter sendStream run that returns a final GatewayResponse has
\* yielded exactly one message_stop chunk, and it is the last chunk yielded.
C9_ExactlyOneMessageStopLast ==
    (op = "sendStream" /\ pc = "returned") =>
        /\ Cardinality(MessageStops(yielded)) = 1
        /\ yielded[Len(yielded)].type = "message_stop"

\* C10: when the byte stream ends without a terminal event (Anthropic: no
\* message_stop event; OpenAI: no 'data: [DONE]'), sendStream fails with
\* STREAM_ERROR instead of returning a response.
C10_TruncatedStreamIsStreamError ==
    (/\ op = "sendStream" /\ pc \in {"returned", "thrown"}
     /\ acc # Null
     /\ wire = <<>> /\ wireEnd = "eof"
     /\ ~HasTerminalEvent(request.provider, consumed)) =>
        /\ pc = "thrown"
        /\ result.code = "STREAM_ERROR"

\* the concatenated text of a response's content parts
TextOf(content) == Flatten([i \in 1..Len(content) |-> content[i].text])

\* the concatenated text of the text_delta chunks of a chunk sequence
DeltaText(chunks) ==
    LET deltas == SelectSeq(chunks, LAMBDA c : c.type = "text_delta")
    IN  Flatten([i \in 1..Len(deltas) |-> deltas[i].text])

\* the JSON texts a provider can write
ValidJsonTexts == {<<"{", k, "}">> : k \in JsonKeys}

\* the payload an adapter hands to JSON.parse for a 'data: ' line
ParsedPayload(providerId, line) ==
    IF providerId = "anthropic" THEN Payload(line) ELSE Trim(Payload(line))

\* the events carried by the complete lines of a byte stream, in order
WireEvents(providerId, bytes) ==
    LET valid == SelectSeq(CompleteLines(bytes),
                    LAMBDA l : IsDataLine(l) /\ ParsedPayload(providerId, l) \in ValidJsonTexts)
    IN  [i \in 1..Len(valid) |-> JsonEvent(ParsedPayload(providerId, valid[i])[2])]

\* the value of a usage field in the last event that carries it, or 0
LastUsage(events, field) ==
    LET bearing == SelectSeq(events, LAMBDA e : e[field] # 0)
    IN  IF bearing = <<>> THEN 0 ELSE bearing[Len(bearing)][field]

\* C11: when a stream carrying the terminal event ends and sendStream
\* returns, the text of the final response's content is the concatenation,
\* in order, of the text of every text_delta chunk yielded, and its usage
\* holds the values of the last usage-bearing wire events.
C11_StreamReconstruction ==
    (/\ op = "sendStream" /\ pc = "returned"
     /\ HasTerminalEvent(request.provider, consumed)) =>
        /\ TextOf(result.content) = DeltaText(yielded)
        /\ LET events == WireEvents(request.provider, consumed)
           IN  /\ LastUsage(events, "input_tokens") # 0
                    => result.usage.inputTokens = LastUsage(events, "input_tokens")
               /\ LastUsage(events, "output_tokens") # 0
                    => result.usage.outputTokens = LastUsage(events, "output_tokens")

\* a 'data: ' line whose payload JSON.parse rejects
IsMalformedLine(providerId, line) ==
    /\ IsDataLine(line)
    /\ ParsedPayload(providerId, line) # <<"[DONE]">>
    /\ ParsedPayload(providerId, line) \notin ValidJsonTexts

\* the complete lines of a byte stream without the malformed ones
WellFormedLines(providerId, bytes) ==
    SelectSeq(CompleteLines(bytes), LAMBDA l : ~IsMalformedLine(providerId, l))

\* C12: a 'data: ' line that is no valid JSON is skipped: the chunks
\* yielded so far, and what sendStream returns or throws when the stream
\* ends, are those of the same stream with the malformed lines removed.
C12_MalformedLinesSkipped ==
    (op = "sendStream" /\ acc # Null) =>
        LET clean == ProcessLines(request.provider, StreamInit(request.provider),
                                  WellFormedLines(request.provider, consumed))
            fin == StreamFinish(request.provider, clean.acc, request)
        IN  IF pc = "reading"
            THEN yielded = FirstChunks(request.provider) \o clean.out
            ELSE wireEnd = "eof" =>
                   /\ yielded = FirstChunks(request.provider) \o clean.out \o fin.out
                   /\ result = fin.final
                   /\ pc = "returned" <=> ~IsError(fin.final)

\* invalid JSON between two valid events: both chunks and a response
C12_Witness ==
    /\ op = "sendStream" /\ pc = "returned"
    /\ Len(CompleteLines(consumed)) = 3
    /\ ~IsMalformedLine(request.provider, CompleteLines(consumed)[1])
    /\ IsMalformedLine(request.provider, CompleteLines(consumed)[2])
    /\ ~IsMalformedLine(request.provider, CompleteLines(consumed)[3])
    /\ CompleteLines(consumed)[1] # <<>> /\ CompleteLines(consumed)[3] # <<>>
    /\ Len(yielded) = Len(FirstChunks(request.provider)) + 2 + (IF request.provider = "openai" THEN 1 ELSE 0)
    /\ result.kind = "response"

----------------------------------------------------------------------------
\* Properties of VLMGateway.findCapableProvider.

\* the order in which providers are to be tried: the preferred one first
\* if it is configured, then the other configured ones as registered
PreferenceOrder(preferredProvider) ==
    (IF preferredProvider \in configured THEN <<preferredProvider>> ELSE <<>>)
    \o SelectSeq(AdapterIds, LAMBDA id : id \in configured /\ id # preferredProvider)

\* the registry positions of the models of a provider whose capability
\* flags are true for every gated content type asked for
CapablePositions(providerId, contentTypes) ==
    { i \in 1..Len(ProviderModels(providerId)) :
        \A k \in 1..Len(contentTypes) :
            contentTypes[k] \in GatedTypes
               => FlagFor(ProviderModels(providerId)[i].caps, contentTypes[k]) }

Least(S) == CHOOSE i \in S : \A j \in S : i <= j

\* C13: findCapableProvider returns the first provider, in the order
\* "preferred if configured, then the configured providers as registered",
\* that has a capable model, together with the first capable model of that
\* provider in registry order.
C13_PreferenceOrder ==
    (op = "findCapableProvider" /\ pc = "returned") =>
        LET order == PreferenceOrder(request.preferredProvider)
            hits == {k \in 1..Len(order) :
                        CapablePositions(order[k], request.contentTypes) # {}}
        IN  hits # {} =>
              /\ result # Null
              /\ result.provider = order[Least(hits)]
              /\ result.model =
                    ProviderModels(result.provider)[
                        Least(CapablePositions(result.provider, request.contentTypes))].id

\* the preferred provider has no pdf-capable model: the other one is
\* returned, with its first pdf-capable model
C13_Witness ==
    /\ op = "findCapableProvider" /\ pc = "returned"
    /\ configured = {"anthropic", "openai"}
    /\ request.preferredProvider = "openai"
    /\ request.contentTypes = <<"pdf">>
    /\ result # Null
    /\ result.provider = "anthropic"
    /\ result.model = <<"claude", "opus", "4", "20250514">>

\* C14: findCapableProvider returns null exactly when no configured
\* provider has a registered model whose flags cover every required content
\* type; a provider it returns is configured and the model it returns has
\* the flag of every requested gated type.
C14_NullOrConfiguredAndCapable ==
    (op = "findCapableProvider" /\ pc = "returned") =>
        /\ result = Null <=>
              \A p \in configured : CapablePositions(p, request.contentTypes) = {}
        /\ result # Null =>
              /\ result.provider \in configured
              /\ \E i \in CapablePositions(result.provider, request.contentTypes) :
                    ProviderModels(result.provider)[i].id = result.model

\* the preferred provider has no credential: the configured one is returned
C14_Witness ==
    /\ op = "findCapableProvider" /\ pc = "returned"
    /\ configured = {"openai"}
    /\ request.preferredProvider = "anthropic"
    /\ request.contentTypes = <<"image">>
    /\ result # Null
    /\ result.provider = "openai"
    /\ DOMAIN capabilityCache = {"openai"}

----------------------------------------------------------------------------
\* Properties of the adapters' getModelCapabilities.

Registry(providerId) ==
    IF providerId = "anthropic" THEN ANTHROPIC_MODEL_CAPABILITIES
    ELSE OPENAI_MODEL_CAPABILITIES

IsRegistered(providerId, model) ==
    \E i \in 1..Len(Registry(providerId)) : Registry(providerId)[i].id = model

\* the capability sets of a provider: its table entries and family sets
CapabilitySets(providerId) ==
    {Registry(providerId)[i].caps : i \in 1..Len(Registry(providerId))}
    \cup (IF providerId = "anthropic"
          THEN {CLAUDE_3_CAPABILITIES, CLAUDE_OPUS_CAPABILITIES}
          ELSE {GPT4_VISION_CAPABILITIES, GPT4O_CAPABILITIES, GPT4O_MINI_CAPABILITIES})

\* whether an identifier carries a name fragment of a known family
HasFamilyFragment(providerId, model) ==
    IF providerId = "anthropic"
    THEN Includes(model, <<"opus">>) \/ Includes(model, <<"claude", "3">>)
    ELSE \/ StartsWith(model, <<"gpt", "4o">>)
         \/ StartsWith(model, <<"gpt", "4", "turbo">>)
         \/ StartsWith(model, <<"o1">>)

Baseline(providerId) ==
    IF providerId = "anthropic" THEN CLAUDE_3_CAPABILITIES ELSE GPT4_VISION_CAPABILITIES

\* C15: getModelCapabilities of an adapter returns a capability set for
\* every identifier and never fails: a registered identifier gets its own
\* entry, an unregistered one containing 'opus' (Anthropic) the Opus set,
\* one starting with 'gpt-4o-mini' (OpenAI) the gpt-4o-mini set, and an
\* identifier with no family fragment the provider's baseline set.
C15_CapabilitiesTotal ==
    (/\ op = "getModelCapabilities" /\ pc # "start"
     /\ HasAdapter(request.provider)) =>
        LET p == request.provider
            m == request.model
        IN  /\ pc = "returned"
            /\ result \in CapabilitySets(p)
            /\ IsRegistered(p, m) =>
                  \E i \in 1..Len(Registry(p)) :
                      Registry(p)[i].id = m /\ Registry(p)[i].caps = result
            /\ (~IsRegistered(p, m) /\ p = "anthropic" /\ Includes(m, <<"opus">>))
                  => result = CLAUDE_OPUS_CAPABILITIES
            /\ (~IsRegistered(p, m) /\ p = "openai" /\ StartsWith(m, <<"gpt", "4o", "mini">>))
                  => result = GPT4O_MINI_CAPABILITIES
            /\ (~IsRegistered(p, m) /\ ~HasFamilyFragment(p, m))
                  => result = Baseline(p)

----------------------------------------------------------------------------
\* Properties of the adapters' transformRequest.

\* a content part and the wire block that stands for it
BlockStandsFor(block, part) ==
    IF part.type = "text"
    THEN block.type = "text" /\ block.text = part.text
    ELSE block.type \in {"image", "image_url", "document"} /\ block.data = part.data

\* a canonical message and the wire message that stands for it
MessageStandsFor(w, m) ==
    /\ w.role = m.role
    /\ IF m.content.isString
       THEN w.content = StringContent(m.content.text)
       ELSE IF w.content.isString
       THEN /\ Len(m.content.parts) = 1
            /\ m.content.parts[1].type = "text"
            /\ m.content.parts[1].text = w.content.text
       ELSE /\ Len(w.content.parts) = Len(m.content.parts)
            /\ \A j \in 1..Len(m.content.parts) :
                  BlockStandsFor(w.content.parts[j], m.content.parts[j])

\* a system message whose content went into the wire system prompt
InSystemPrompt(systemPrompt, m) ==
    IF m.content.isString
    THEN Includes(systemPrompt, m.content.text)
    ELSE \A j \in 1..Len(m.content.parts) :
            /\ m.content.parts[j].type = "text"
            /\ Includes(systemPrompt, m.content.parts[j].text)

\* the messages an adapter sends in the wire messages array, and those it
\* moves to a separate system prompt
InBody(providerId, m) == providerId = "openai" \/ m.role # "system"

\* C16: a transformRequest that does not fail with TransformError
\* represents every message of the request in the wire request: each
\* message sent in the messages array with every part of its content, and
\* each system message moved out of it in the system prompt.
C16_NoContentDropped ==
    (op = "transformRequest" /\ pc = "returned") =>
        LET p == request.provider
            body == SelectSeq(request.messages, LAMBDA m : InBody(p, m))
            moved == SelectSeq(request.messages, LAMBDA m : ~InBody(p, m))
            offset == Len(result.messages) - Len(body)
        IN  /\ offset >= 0
            /\ \A i \in 1..Len(body) : MessageStandsFor(result.messages[offset + i], body[i])
            /\ \A i \in 1..Len(moved) : InSystemPrompt(result.system, moved[i])

----------------------------------------------------------------------------
\* Properties of the errors of VLMGateway.send.

\* C17: a TRANSFORM_ERROR or a NOT_CONFIGURED thrown by adapter.send is not
\* retried: it is the only attempt of the call, no backoff delay follows it,
\* and it is the error send throws.
C17_TransformErrorNotRetried ==
    op = "send" =>
        \A j \in 1..Len(Attempts(history)) :
            LET e == Attempts(history)[j].outcome
            IN  (IsError(e) /\ e.code \in {"TRANSFORM_ERROR", "NOT_CONFIGURED"}) =>
                  /\ j = 1 /\ Len(Attempts(history)) = 1
                  /\ Delays(history) = <<>>
                  /\ pc # "backoff"
                  /\ pc = "thrown" => result = e

\* C18: every error send throws carries the id of the requested provider
\* in its provider field.
C18_ErrorsCarryProvider ==
    (op = "send" /\ pc = "thrown") =>
        /\ IsError(result)
        /\ result.provider = request.provider

ErrorKinds ==
    {"NOT_CONFIGURED", "UNKNOWN_PROVIDER", "CAPABILITY_ERROR", "TRANSFORM_ERROR",
     "API_ERROR", "STREAM_ERROR"}

\* C19: the error send finally throws is a GatewayError whose code is one
\* of the six error kinds.
C19_ThrownErrorIsGatewayError ==
    (op = "send" /\ pc = "thrown") =>
        /\ IsError(result)
        /\ IsGatewayError(result)
        /\ result.code \in ErrorKinds

\* the capability that gates a content type
CapabilityOf(type) ==
    IF type = "image" THEN "vision" ELSE type

\* the first offending part, in the order validateRequest visits the parts
FirstOffending(req) ==
    CHOOSE pos \in Offending(req) :
        \A other \in Offending(req) :
            \/ pos[1] < other[1]
            \/ pos[1] = other[1] /\ pos[2] <= other[2]

\* C20: the CapabilityError thrown when validation fails carries all the
\* violation messages, and its requiredCapability names the capability of
\* the first violation.
C20_CapabilityErrorNamesFirstViolation ==
    (/\ op = "send" /\ pc = "thrown"
     /\ IsError(result) /\ result.cls = "CapabilityError") =>
        /\ Offending(request) # {}
        /\ result.message = validateRequest(request).errors
        /\ result.requiredCapability = CapabilityOf(PartAt(request, FirstOffending(request)).type)

----------------------------------------------------------------------------
\* Properties of the capability cache.

\* what holds of the cache and of the calls in flight in every state
CacheConsistent ==
    /\ \A p \in DOMAIN capabilityCache :
          HasAdapter(p) /\ capabilityCache[p] = GetCapabilities(p)
    /\ \A c \in DOMAIN calls :
          /\ calls[c].pc = "thrown" =>
                /\ calls[c].error.code = "UNKNOWN_PROVIDER"
                /\ ~HasAdapter(Head(calls[c].todo))
                /\ Head(calls[c].todo) \notin DOMAIN capabilityCache
          /\ calls[c].pc = "await" => HasAdapter(Head(calls[c].todo))

\* what holds of every step: entries stay and keep their value, and a call
\* fetches only when its cache test found no entry
CacheStable ==
    /\ \A p \in DOMAIN capabilityCache :
          p \in DOMAIN capabilityCache' /\ capabilityCache'[p] = capabilityCache[p]
    /\ \A c \in DOMAIN calls :
          (calls[c].pc = "check" /\ calls'[c].pc = "await")
             => Head(calls[c].todo) \notin DOMAIN capabilityCache

\* C21: under every interleaving of getProviderCapabilities and
\* findCapableProvider calls, a cache entry is the data of its provider's
\* adapter, an entry once present never changes value and is never removed
\* (a concurrent first access overwrites it with identical data), a call
\* that finds the entry does not fetch again, and a lookup for an unknown
\* provider fails with UNKNOWN_PROVIDER and creates no entry.
C21_CacheWrittenOnceThenRead ==
    [](op = "getProviderCapabilities" => CacheConsistent)
    /\ [][op = "getProviderCapabilities" => CacheStable]_vars

\* two calls raced on the first access for the same provider: both found
\* no entry, both fetched and both wrote, the second write over the first
C21_Witness ==
    /\ op = "getProviderCapabilities"
    /\ \A c \in DOMAIN calls : calls[c].pc = "done"
    /\ calls[1].method = "getProviderCapabilities"
    /\ calls[1].fetched = GetCapabilities("openai")
    /\ calls[2].method = "findCapableProvider"
    /\ calls[2].fetched = GetCapabilities("openai")
    /\ DOMAIN capabilityCache = {"openai"}

----------------------------------------------------------------------------
\* Properties of a text-only exchange.

\* the text of the single message of a text request
OriginalText(req) ==
    IF req.messages[1].content.isString THEN req.messages[1].content.text
    ELSE req.messages[1].content.parts[1].text

\* C22: for a request with a single text message (string content or one
\* text part) the wire message carries exactly that text as its content,
\* and transformResponse on a response of the same provider carrying that
\* text returns content whose text is the original text.
C22_TextRoundTrip ==
    op = "exchange" =>
        /\ pc # "thrown"
        /\ pc \in {"sent", "returned"} =>
              LET wireRequest == history[1].outcome
                  w == wireRequest.messages[Len(wireRequest.messages)]
              IN  /\ w.role = request.messages[1].role
                  /\ w.content = StringContent(OriginalText(request))
        /\ pc = "returned" =>
              /\ result.kind = "response"
              /\ TextOf(result.content) = OriginalText(request)
              /\ \A i \in 1..Len(result.content) : result.content[i].type = "text"

\* a text with a blank line in it, sent as a text part, comes back as it was
C22_Witness ==
    /\ op = "exchange" /\ pc = "returned"
    /\ request.provider = "anthropic"
    /\ ~request.messages[1].content.isString
    /\ OriginalText(request) = <<"a", "\n\n", "b">>
    /\ TextOf(result.content) = <<"a", "\n\n", "b">>

\* the canonical stop reason the mapping table of a provider gives, with
\* end_turn for every value the table does not list
CanonicalStopReason(providerId, reason) ==
    IF providerId = "anthropic"
    THEN IF reason \in {"end_turn", "max_tokens", "stop_sequence", "tool_use"}
         THEN reason ELSE "end_turn"
    ELSE CASE reason = "stop" -> "end_turn"
           [] reason = "length" -> "max_tokens"
           [] reason = "tool_calls" -> "tool_use"
           [] reason = "content_filter" -> "end_turn"
           [] OTHER -> "end_turn"

\* the stop reason carried by a provider response
StopReasonOf(providerId, body) ==
    IF providerId = "anthropic" THEN body.stop_reason ELSE body.choices[1].finish_reason

\* C26: transformResponse maps every recognised provider stop reason to
\* its canonical value and every other or missing value to end_turn; the
\* stopReason of the response is always one of the canonical values.
C26_StopReasonTotal ==
    (op = "exchange" /\ pc = "returned") =>
        /\ result.kind = "response"
        /\ result.stopReason \in StopReasons
        /\ result.stopReason =
              CanonicalStopReason(request.provider,
                                  StopReasonOf(request.provider, history[2].outcome))

----------------------------------------------------------------------------
\* Properties of SSE line buffering and of chunk delivery.

\* what an adapter yields and holds after the bytes given, had they come
\* in one read
InOneRead(providerId, bytes) ==
    ProcessLines(providerId, StreamInit(providerId), CompleteLines(bytes))

\* C23: whatever the read boundaries, the chunks yielded, the accumulators
\* and the partial line kept after the bytes consumed so far are those of
\* the same bytes delivered in a single read, and so is the final outcome
\* when the stream ends.
C23_ReadBoundariesDoNotMatter ==
    (op = "sendStream" /\ acc # Null) =>
        LET once == InOneRead(request.provider, consumed)
            fin == StreamFinish(request.provider, once.acc, request)
        IN  /\ acc = once.acc
            /\ buffer = RestOfBuffer(consumed)
            /\ IF pc = "returned" \/ (pc = "thrown" /\ wireEnd = "eof")
               THEN /\ yielded = FirstChunks(request.provider) \o once.out \o fin.out
                    /\ result = fin.final
               ELSE yielded = FirstChunks(request.provider) \o once.out

\* three events whose lines were each cut by a read boundary (a line is
\* longer than a read), all three chunks yielded and the response returned
C23_Witness ==
    /\ op = "sendStream" /\ pc = "returned"
    /\ request.provider = "anthropic"
    /\ Len(CompleteLines(consumed)) = 3
    /\ \A i \in 1..3 : Len(CompleteLines(consumed)[i]) > MaxRead
    /\ Len(yielded) = 3
    /\ yielded[2].type = "text_delta"

IsPrefix(s, t) == Len(s) <= Len(t) /\ SubSeq(t, 1, Len(s)) = s

\* C24: the chunks VLMGateway.sendStream has yielded are at every moment
\* the chunks the adapter has yielded, in the same order; chunks are only
\* ever appended; the value returned is the adapter's final response, and
\* nothing is yielded once it is returned.
C24_GatewayStreamIsAdapterStream ==
    [](op = "sendStream" =>
          /\ delivered = yielded
          /\ pc = "returned" =>
                /\ result.kind = "response"
                /\ result = StreamFinish(request.provider, acc, request).final
                /\ wire = <<>>)
    /\ [][op = "sendStream" =>
            /\ IsPrefix(delivered, delivered')
            /\ pc = "returned" => delivered' = delivered]_vars

\* an OpenAI stream of two deltas: four chunks delivered, then the response
C24_Witness ==
    /\ op = "sendStream" /\ pc = "returned"
    /\ request.provider = "openai"
    /\ Len(delivered) = 4
    /\ delivered[1].type = "message_start"
    /\ delivered[2].type = "text_delta" /\ delivered[2].text = <<"a">>
    /\ delivered[3].type = "text_delta" /\ delivered[3].text = <<"b">>
    /\ delivered[4].type = "message_stop"
    /\ TextOf(result.content) = <<"a", "b">>

----------------------------------------------------------------------------
\* Properties of the partitioning of messages by transformRequest.

\* texts joined by a blank line
RECURSIVE JoinByBlankLine(_)
JoinByBlankLine(texts) ==
    IF texts = <<>> THEN <<>>
    ELSE IF Len(texts) = 1 THEN texts[1]
    ELSE texts[1] \o <<"\n\n">> \o JoinByBlankLine(Tail(texts))

\* the texts from the first non-empty one on: there is nothing to join an
\* empty text at the head to
RECURSIVE FromFirstNonEmpty(_)
FromFirstNonEmpty(texts) ==
    IF texts = <<>> THEN <<>>
    ELSE IF Truthy(Head(texts)) THEN texts
    ELSE FromFirstNonEmpty(Tail(texts))

\* request.system, when given, and the string contents of the system
\* messages, in order
SystemTexts(req) ==
    LET strings == SelectSeq(req.messages,
                             LAMBDA m : m.role = "system" /\ m.content.isString)
    IN  FromFirstNonEmpty(
            (IF req.system # <<>> THEN <<req.system>> ELSE <<>>)
            \o [i \in 1..Len(strings) |-> strings[i].content.text])

\* the wire system field for a text: omitted (the empty sequence) when empty
SystemField(text) == IF Truthy(text) THEN text ELSE <<>>

AnthropicPartition(req, w) ==
    LET others == SelectSeq(req.messages, LAMBDA m : m.role # "system")
    IN  /\ \A i \in 1..Len(w.messages) : w.messages[i].role # "system"
        /\ Len(w.messages) = Len(others)
        /\ \A i \in 1..Len(others) : MessageStandsFor(w.messages[i], others[i])
        /\ w.system = SystemField(JoinByBlankLine(SystemTexts(req)))

OpenAIPartition(req, w) ==
    LET first == IF req.system # <<>> THEN 1 ELSE 0
    IN  /\ Len(w.messages) = first + Len(req.messages)
        /\ first = 1 =>
              /\ w.messages[1].role = "system"
              /\ w.messages[1].content = StringContent(req.system)
        /\ \A i \in 1..Len(req.messages) :
              MessageStandsFor(w.messages[first + i], req.messages[i])

----------------------------------------------------------------------------
\* extractPdf: text extraction page by page, reported through emit.

MaxPages == 3

\* what the two awaits of a page's try block can do: both resolve, or one
\* of them rejects or loses the race against the timeout
PageOutcomes ==
    {[kind |-> "text"]}
    \cup {[kind |-> "error", at |-> a, how |-> h] :
             a \in {"getPage", "getTextContent"}, h \in {"rejects", "timeout"}}

\* how loading goes: readFile and getDocument resolve, or one of them fails
LoadOutcomes == {"loaded", "readFile rejects", "getDocument rejects", "getDocument timeout"}

\* a document: how it loads, pdf.numPages and what each page does
Documents ==
    UNION { [load : LoadOutcomes, numPages : {n}, pages : [1..n -> PageOutcomes]] :
              n \in 0..MaxPages }

\* Date.now() - pageStart, Date.now() - start
Durations == {0, 12}

\* withTimeout's rejection: `${label} timed out after ${timeoutMs}ms`
TimedOut(label) == <<label, " timed out after ", "timeoutMs", "ms">>

\* error.message of the error caught for a page
PageErrorMessage(i, outcome) ==
    IF outcome.how = "timeout"
    THEN TimedOut(<<outcome.at, i>>)
    ELSE <<outcome.at, i, " failed">>

\* a page loop that reports nothing for a page that failed
PageEventsWithoutError(i, n, outcome, durationMs) ==
    (IF outcome.kind = "text"
     THEN <<[type |-> "page-text", page |-> i, pages |-> n, text |-> <<"text of page", i>>]>>
     ELSE <<>>)
    \o <<[type |-> "page-start", page |-> i, pages |-> n, durationMs |-> durationMs]>>

\* the events of one page after its page-start: the try block's page-text
\* or the catch block's page-error, then the page-start with a duration
PageEvents(i, n, outcome, durationMs) ==
    <<IF outcome.kind = "text"
      THEN [type |-> "page-text", page |-> i, pages |-> n, text |-> <<"text of page", i>>]
      ELSE [type |-> "page-error", page |-> i, pages |-> n,
            error |-> PageErrorMessage(i, outcome)],
      [type |-> "page-start", page |-> i, pages |-> n, durationMs |-> durationMs]>>

InitExtract ==
    /\ op = "extractPdf"
    /\ pc = "start"
    /\ request = Null
    /\ configured = {"anthropic", "openai"}
    /\ retry = [maxRetries |-> 3, backoffMs |-> 1000, backoffMultiplier |-> 2]
    /\ GatewayIdle
    /\ defaultModel = DefaultModels
    /\ pdf \in Documents
    /\ pageNumber = 0
    /\ emitted = <<>>

\* up to the first await: emit start, readFile
ExtractStart ==
    /\ op = "extractPdf" /\ pc = "start"
    /\ emitted' = Append(emitted, [type |-> "start", message |-> "starting extraction"])
    /\ pc' = "loading"
    /\ UNCHANGED <<pdf, pageNumber>>
    /\ UNCHANGED <<defaultModel, op, calls, request, configured, capabilityCache, retry,
                   attempt, lastError, history, result, wire, wireEnd, consumed, buffer,
                   acc, yielded, delivered>>

\* readFile and getDocument settle: the rejection propagates, or the
\* second start event is emitted and the loop begins with i = 1
ExtractLoad ==
    /\ op = "extractPdf" /\ pc = "loading"
    /\ IF pdf.load = "loaded"
       THEN /\ emitted' = Append(emitted, [type |-> "start", pages |-> pdf.numPages])
            /\ pageNumber' = 1
            /\ pc' = "loop"
            /\ UNCHANGED result
       ELSE /\ result' = PlainError(IF pdf.load = "getDocument timeout"
                                    THEN TimedOut(<<"getDocument">>)
                                    ELSE <<pdf.load>>)
            /\ pc' = "thrown"
            /\ UNCHANGED <<emitted, pageNumber>>
    /\ UNCHANGED pdf
    /\ UNCHANGED <<defaultModel, op, calls, request, configured, capabilityCache, retry,
                   attempt, lastError, history, wire, wireEnd, consumed, buffer,
                   acc, yielded, delivered>>

\* i <= pdf.numPages: emit page-start and wait for the page
ExtractPageStart ==
    /\ op = "extractPdf" /\ pc = "loop"
    /\ pageNumber <= pdf.numPages
    /\ emitted' = Append(emitted,
          [type |-> "page-start", page |-> pageNumber, pages |-> pdf.numPages])
    /\ pc' = "page"
    /\ UNCHANGED <<pdf, pageNumber>>
    /\ UNCHANGED <<defaultModel, op, calls, request, configured, capabilityCache, retry,
                   attempt, lastError, history, result, wire, wireEnd, consumed, buffer,
                   acc, yielded, delivered>>

\* getPage and getTextContent settle: the rest of the loop body, and i++
ExtractPageEnd ==
    /\ op = "extractPdf" /\ pc = "page"
    /\ \E durationMs \in Durations :
         emitted' = emitted \o PageEvents(pageNumber, pdf.numPages,
                                          pdf.pages[pageNumber], durationMs)
    /\ pageNumber' = pageNumber + 1
    /\ pc' = "loop"
    /\ UNCHANGED pdf
    /\ UNCHANGED <<defaultModel, op, calls, request, configured, capabilityCache, retry,
                   attempt, lastError, history, result, wire, wireEnd, consumed, buffer,
                   acc, yielded, delivered>>

\* the loop is over: emit done and return pdf.numPages
ExtractDone ==
    /\ op = "extractPdf" /\ pc = "loop"
    /\ pageNumber > pdf.numPages
    /\ \E durationMs \in Durations :
         emitted' = Append(emitted,
            [type |-> "done", pages |-> pdf.numPages, durationMs |-> durationMs])
    /\ result' = [kind |-> "pages", value |-> pdf.numPages]
    /\ pc' = "returned"
    /\ UNCHANGED <<pdf, pageNumber>>
    /\ UNCHANGED <<defaultModel, op, calls, request, configured, capabilityCache, retry,
                   attempt, lastError, history, wire, wireEnd, consumed, buffer,
                   acc, yielded, delivered>>

NextExtract ==
    \/ ExtractStart
    \/ ExtractLoad
    \/ ExtractPageStart
    \/ ExtractPageEnd
    \/ ExtractDone

SpecExtract == InitExtract /\ [][NextExtract]_vars

----------------------------------------------------------------------------
\* Properties of extractPdf.

\* the events emitted after the two start events
PageEventsOf(events) == SubSeq(events, 3, Len(events))

\* the j-th event after the start events is the one the protocol puts
\* there for a document of n pages: three events per page, then done
InProtocol(e, j, n) ==
    LET p == ((j - 1) \div 3) + 1
        slot == (j - 1) % 3
    IN  IF j = 3 * n + 1 THEN e.type = "done" /\ e.pages = n
        ELSE /\ j <= 3 * n
             /\ e.page = p
             /\ IF slot = 0 THEN e.type = "page-start" /\ "durationMs" \notin DOMAIN e
                ELSE IF slot = 2 THEN e.type = "page-start" /\ "durationMs" \in DOMAIN e
                ELSE IF pdf.pages[p].kind = "text" THEN e.type = "page-text"
                ELSE e.type = "page-error"

\* C27: once the document has loaded with N pages, the events emitted are,
\* for each page 1..N in ascending order, a page-start, then one page-text
\* or (when getPage or getTextContent failed or timed out) one page-error,
\* then a page-start with a duration; a failed page does not stop the
\* extraction; one done event follows all page events, and the function
\* returns N, with N page-text events in a run without errors.
C27_ExtractEventProtocol ==
    (op = "extractPdf" /\ pc \in {"loop", "page", "returned"}) =>
        LET n == pdf.numPages
            body == PageEventsOf(emitted)
        IN  /\ \A j \in 1..Len(body) : InProtocol(body[j], j, n)
            /\ pc \in {"loop", "page"} => ENABLED NextExtract
            /\ pc = "returned" =>
                  /\ Len(body) = 3 * n + 1
                  /\ result = [kind |-> "pages", value |-> n]
                  /\ (\A p \in 1..n : pdf.pages[p].kind = "text") =>
                        Cardinality({j \in 1..Len(body) : body[j].type = "page-text"}) = n

\* three pages, the second of which timed out in getPage: its page-error
\* stands between the events of pages one and three, and 3 is returned
C27_Witness ==
    /\ op = "extractPdf" /\ pc = "returned"
    /\ pdf.numPages = 3
    /\ pdf.pages[1].kind = "text" /\ pdf.pages[3].kind = "text"
    /\ pdf.pages[2] = [kind |-> "error", at |-> "getPage", how |-> "timeout"]
    /\ Len(emitted) = 12
    /\ emitted[4].type = "page-text"
    /\ emitted[7].type = "page-error" /\ emitted[7].page = 2
    /\ emitted[7].error = TimedOut(<<"getPage", 2>>)
    /\ emitted[10].type = "page-text" /\ emitted[10].page = 3
    /\ emitted[12].type = "done"
    /\ result.value = 3

----------------------------------------------------------------------------
\* Properties relating validation, transformation and the wire model.

\* every part of every message has one of the five known types
OnlyKnownParts(req) ==
    \A i \in 1..Len(req.messages) :
        req.messages[i].content.isString
        \/ \A j \in 1..Len(req.messages[i].content.parts) :
              req.messages[i].content.parts[j].type \in KnownPartTypes

\* a TransformError raised because the model or provider lacks a capability
ForCapabilityReason(error) ==
    /\ IsError(error) /\ error.code = "TRANSFORM_ERROR"
    /\ error.message # <<Msg("Unknown content part type", <<>>)>>

\* C28: for a request made of the five known part types, a validateRequest
\* that returns valid = true means transformRequest raises no
\* TransformError, and a TransformError raised for a capability reason
\* means validateRequest returns valid = false.
C28_ValidationAgreesWithTransform ==
    (op = "transformRequest" /\ pc \in {"returned", "thrown"} /\ OnlyKnownParts(request)) =>
        /\ validateRequest(request).valid => (pc = "returned" /\ ~IsError(result))
        /\ ForCapabilityReason(result) => ~validateRequest(request).valid

\* claude-3-opus-latest has vision but no native PDF: an image and a text
\* pass validation and are transformed
C28_Witness ==
    /\ op = "transformRequest" /\ pc = "returned"
    /\ request.provider = "anthropic"
    /\ request.model = <<"claude", "3", "opus", "latest">>
    /\ Len(request.messages) = 2
    /\ request.messages[1] = Message("user", ArrayContent(<<MediaPart("image")>>))
    /\ request.messages[2] = Message("user", StringContent(<<"hi">>))
    /\ validateRequest(request).valid
    /\ result.messages[1].content.parts[1].type = "image"

----------------------------------------------------------------------------
\* send on a gateway whose configuration names default models, with
\* requests from the helper constructors.

\* config.providers.<id>.defaultModel: absent (the adapter's own default)
\* or a registered model
ConfiguredDefaults ==
    [anthropic : {AnthropicDefaultModel, <<"claude", "3", "opus", "latest">>},
     openai : {OpenAIDefaultModel, <<"o1", "mini">>}]

\* VLMGateway.createPDFRequest: options.provider || config.defaultProvider,
\* options.model || '', one user message of the PDF and the prompt
CreatePDFRequest(prompt, options) ==
    Request(IF options.provider # "" THEN options.provider ELSE "anthropic",
            options.model,
            <<Message("user", ArrayContent(<<MediaPart("pdf"), TextPart(prompt)>>))>>,
            <<>>)

PDFRequests ==
    { CreatePDFRequest(<<"hi">>, [provider |-> p, model |-> m]) :
        p \in {"", "anthropic", "openai"}, m \in ModelIds }

InitDefaults ==
    /\ op = "send"
    /\ pc = "start"
    /\ request \in SendRequests \cup PDFRequests
    /\ configured \in SUBSET {"anthropic", "openai"}
    /\ retry \in {r \in RetryConfigs :
                    r.maxRetries <= 1 /\ r.backoffMs = 1000 /\ r.backoffMultiplier = 2}
    /\ GatewayIdle
    /\ defaultModel \in ConfiguredDefaults
    /\ ExtractorIdle

SpecDefaults == InitDefaults /\ [][Next]_vars

----------------------------------------------------------------------------
\* send under any retry configuration a caller can pass to the constructor.

\* config.retry as supplied: maxRetries is a number, possibly negative
AnyRetryConfigs ==
    [maxRetries : {-1} \cup (0..MaxRetriesBound), backoffMs : {1000}, backoffMultiplier : {2}]

InitAnyRetry ==
    /\ op = "send"
    /\ pc = "start"
    /\ request \in SendRequests
    /\ configured \in SUBSET {"anthropic", "openai"}
    /\ retry \in AnyRetryConfigs
    /\ Idle

SpecAnyRetry == InitAnyRetry /\ [][Next]_vars

----------------------------------------------------------------------------
\* Properties of send under configured defaults and retry settings.

\* C29: for a request that send accepted and whose wire request was built,
\* every non-text part type of the request has its capability flag true
\* in the capabilities of the model the wire request names.
C29_ValidatedAgainstWireModel ==
    (op = "send" /\ pc # "start" /\ SendPrechecks(request) = Null) =>
        LET sent == TransformRequest(request.provider, request)
        IN  ~IsError(sent) =>
              \A pos \in PartPositions(request) :
                  PartAt(request, pos).type \in GatedTypes =>
                      FlagFor(GetModelCapabilities(request.provider, sent.model),
                              PartAt(request, pos).type)

\* C30: a send whose pre-checks passed has invoked adapter.send at least
\* once when it finishes; what it returns is that adapter's response and
\* what it throws is an error one of the attempts raised, never null.
C30_SendNeverThrowsNull ==
    (op = "send" /\ pc \in {"returned", "thrown"} /\ SendPrechecks(request) = Null) =>
        /\ Len(Attempts(history)) >= 1
        /\ result # Null
        /\ pc = "returned" => result = LastOf(Attempts(history)).outcome
        /\ pc = "thrown" =>
              \E j \in 1..Len(Attempts(history)) : Attempts(history)[j].outcome = result

====
